---- MODULE Spec2Model ----
(***************************************************************************)
(* The MaskedAttendance ledger (contract MaskedAttendance, in              *)
(* src/action/contracts/test/MaskedAttendance.test.ts, lines 245-577) as a *)
(* state machine.  One action per external state-changing function.  A     *)
(* call that reverts leaves the ledger as it was (a stuttering step); the  *)
(* message it reverts with is computed by the ...Revert operator of the    *)
(* function, require by require, and the action is the call for which      *)
(* that operator yields OK.                                                *)
(*                                                                         *)
(* A ciphertext is a record [init, val, acl]: val is its plaintext, acl    *)
(* the principals the ACL lets decrypt it, init = FALSE the zero handle of *)
(* a mapping slot never written.                                           *)
(*                                                                         *)
(* The React hook useMaskedAttendance (src/unnamed/part_000) that sends    *)
(* the transactions is modelled on top of the ledger: Spec is the ledger   *)
(* called directly, HookSpec the ledger driven through the hook.  The      *)
(* other parts of the front end are modelled each on its own: SigSpec the  *)
(* decryption-signature manager and its storage, SdkSpec the SDK loader    *)
(* with initSDKWithRetry, FhevmSpec the hook useFhevm.                     *)
(***************************************************************************)
EXTENDS Integers, FiniteSets, Sequences, TLC

\* ------------------------------------------------------------- bounds
MaxCourses == 2
MaxTick == 3
MaxScore == 20
MaxLedger == 6

\* ---------------------------------------------------- program constants
Grace == 300
Present == 1
PresentPoints == 10
Uint8Max == 255

\* ------------------------------------------------------------- inputs
Deployer == "a0"
Addr == {"a0", "a1", "a2"}
This == "this"
Principals == Addr \cup {This}
GenesisTime == Grace + Grace
IdSpace == 0 .. (MaxCourses + 1)
CourseNames == {"math"}
StatusValues == {0, 1, 2}
\* values FHE.randEuint8 draws (any of 0 .. 255), and the address rewarded
BonusValues == {0, Uint8Max}
BonusArgs == {"a2"}
\* start times a teacher submits: one the grace window never admits and one
\* after genesis (in the past, within the grace window, for a course created
\* later); and end - start
StartTimes == {GenesisTime - Grace, GenesisTime + 1}
Durations == {-1, 0, 1}
\* the addresses the admin registers as teacher, as student, and those that
\* register themselves
TeacherArgs == {"a0", "a1"}
StudentArgs == {"a1"}
SelfRegistrants == {"a2"}
OK == "ok"

VARIABLES now, admin, nextCourseId, courses, isTeacher, isStudent,
          encryptedAttendance, encryptedTotalAttendance, encryptedStudentScore

vars == <<now, admin, nextCourseId, courses, isTeacher, isStudent,
          encryptedAttendance, encryptedTotalAttendance, encryptedStudentScore>>

\* The client hook useMaskedAttendance (src/unnamed/part_000): its isLoading
\* and error state, the operation it is running and how far that has come.
VARIABLES isLoading, error, hookPc, hookCall

hookVars == <<isLoading, error, hookPc, hookCall>>

\* FhevmDecryptionSignatureManager (src/action/frontend/fhevm/
\* decryption-signature.ts) over its DecryptionSignatureStorage (storage.ts):
\* the clock it reads, the stored signatures by key, and the last call made
\* to it with what it returned.
VARIABLES sigClock, sigStorage, sigCall

sigVars == <<sigClock, sigStorage, sigCall>>

\* FhevmSDKLoader (the singleton sdkLoader) and a run of initSDKWithRetry
\* (decryption-signature.ts, lines 355-619)
VARIABLES sdkLoader, sdkRetry

sdkVars == <<sdkLoader, sdkRetry>>

\* The hook useFhevm (src/action/frontend/fhevm/useFhevm.ts): fhevm is its
\* React state (instance, status, error, retryCount); fhevmRefs its props
\* and refs, the creations of an instance that are in flight, and the
\* instance the instanceManager singleton holds.
VARIABLES fhevm, fhevmRefs

fhevmVars == <<fhevm, fhevmRefs>>

\* the front-end state outside the hook useMaskedAttendance
clientVars == <<sigVars, sdkVars, fhevmVars>>

\* what a step of the signature manager / of the SDK loader / of useFhevm
\* leaves alone
notSigVars == <<vars, hookVars, sdkVars, fhevmVars>>

notSdkVars == <<vars, hookVars, sigVars, fhevmVars>>

notFhevmVars == <<vars, hookVars, sigVars, sdkVars>>

allVars == <<vars, hookVars, clientVars>>

\* no operation of the hook in progress
NoCall == [op |-> "none", signer |-> "", courseId |-> 0,
           startTime |-> 0, endTime |-> 0, status |-> 0]

\* useState<string | null>(null): the error state when no error is recorded
NoError == "null"

\* ------------------------------------ decryption signatures (front end)
\* SIGNATURE_DURATION_DAYS: 365 (the lifetime of a signature, in days)
SIGNATURE_DURATION_DAYS == 365

\* durationDays * 24 * 60 * 60
SecondsPerDay == 24 * 60 * 60

\* the clock advances by half the lifetime of a signature, MaxSigTick times
MaxSigTick == 3

SigClockStep == (SIGNATURE_DURATION_DAYS * SecondsPerDay) \div 2

SigUsers == {"0xAb"}

\* contract addresses, as numbers so that a list of them can be sorted
ContractLists == {<<1, 2>>, <<2, 1>>}

\* publicKey of the keyPair argument: "" when the argument is omitted
KeyPairs == {"", "pk1"}

\* public keys instance.generateKeypair() may return
GeneratedKeys == {"gen1", "gen2"}

\* null, where a DecryptionSignature is expected
NoSig == [publicKey |-> "", startTimestamp |-> 0, durationDays |-> 0,
          userAddress |-> "", contractAddresses |-> <<>>]

\* userAddress.toLowerCase()
toLowerCase(a) == IF a = "0xAb" THEN "0xab" ELSE a

\* [...contractAddresses].sort()
sortAddresses(list) == SortSeq(list, LAMBDA x, y : x < y)

\* DecryptionSignatureStorage.generateKey: the lower-cased user, the sorted
\* contract list and, only if it is given and not empty, the public key
generateKey(userAddress, contractAddresses, publicKey) ==
    <<toLowerCase(userAddress), sortAddresses(contractAddresses), publicKey>>

SigKeys ==
    {generateKey(u, c, k) : u \in SigUsers, c \in ContractLists,
                            k \in KeyPairs \cup GeneratedKeys}

\* --------------------------------------------- SDK loader (front end)
\* maxRetries: number = 3
DefaultMaxRetries == 3

RetryCounts == 0 .. DefaultMaxRetries

\* What window.relayerSDK.initSDK would answer to its 1st, 2nd, ... call
\* during a run of initSDKWithRetry: TRUE a result that is true, FALSE a
\* result that is false or an exception.
InitPlans == [1 .. DefaultMaxRetries -> BOOLEAN]

\* private loadPromise = null, initPromise = null; no script loaded
FreshLoader == [loaded |-> FALSE, initialized |-> FALSE,
                loadPromise |-> "null", initPromise |-> "null"]

\* no run of initSDKWithRetry
NoRetry == [pc |-> "idle", i |-> 0, maxRetries |-> 0,
            plan |-> [k \in 1 .. DefaultMaxRetries |-> FALSE],
            calls |-> 0, result |-> "none"]

\* --------------------------------------------------- useFhevm (front end)
\* if (retryCount >= 3)
MaxRetryCount == 3

\* aborted creations still in flight that the model keeps count of
MaxAborted == 2

\* the provider prop: "none" for undefined
Providers == {"p1", "p2"}

MaximumRetryError == "Maximum retry attempts reached. Please refresh the page."

\* useState(undefined), useState("idle"), useState(undefined), useState(0)
FhevmInitial == [instance |-> "undefined", status |-> "idle",
                 error |-> "undefined", retryCount |-> 0]

\* mounted, enabled = true, no provider yet, the lifecycle effect about to
\* run for the first time, abortControllerRef.current = null, nothing in
\* flight, instanceManager.currentInstance = null
FhevmRefsInitial == [provider |-> "none", enabled |-> TRUE, mounted |-> TRUE,
                     effectPending |-> TRUE, active |-> "none", aborted |-> 0,
                     managerFor |-> "none"]

\* no call made yet to the signature manager
NoSigCall == [op |-> "none", userAddress |-> "", contractAddresses |-> <<>>,
              publicKey |-> "", found |-> "none", signed |-> FALSE,
              result |-> NoSig, at |-> 0]

\* ------------------------------------------------- ciphertexts and ACL
ZeroHandle == [init |-> FALSE, val |-> 0, acl |-> {}]

\* the zero value of struct Course in a mapping slot never written
ZeroCourse == [courseId |-> 0, name |-> "", teacher |-> "", startTime |-> 0,
               endTime |-> 0, isActive |-> FALSE, isFinalized |-> FALSE]

\* plaintext of a handle: the FHE operators read the zero handle as 0
Plain(h) == IF h.init THEN h.val ELSE 0

\* euint32 wraps at 2^32; every plaintext of the model stays below MaxScore +
\* Uint8Max (the guards of checkIn and generateRandomBonus), so no sum wraps
asEuint32(v) == [init |-> TRUE, val |-> v, acl |-> {}]
asEuint8(v) == [init |-> TRUE, val |-> v % (Uint8Max + 1), acl |-> {}]
FHEeq(a, b) == Plain(a) = Plain(b)
FHEgt(a, b) == Plain(a) > Plain(b)
FHEselect(c, a, b) == IF c THEN a ELSE b
FHEadd(a, b) == [init |-> TRUE, val |-> Plain(a) + Plain(b), acl |-> {}]
allow(h, who) == [h EXCEPT !.acl = @ \cup {who}]
allowThis(h) == allow(h, This)

TypeOK ==
    /\ now \in GenesisTime .. (GenesisTime + MaxTick)
    /\ admin \in Addr
    /\ nextCourseId \in 1 .. (MaxCourses + 1)
    /\ isTeacher \in [Addr -> BOOLEAN]
    /\ isStudent \in [Addr -> BOOLEAN]
    /\ DOMAIN courses = IdSpace
    /\ DOMAIN encryptedAttendance = IdSpace
    /\ DOMAIN encryptedTotalAttendance = IdSpace
    /\ DOMAIN encryptedStudentScore = Addr
    /\ isLoading \in BOOLEAN
    /\ hookPc \in {"idle", "started", "pending", "included", "failed", "dropped"}
    /\ sigClock \in {k * SigClockStep : k \in 0 .. MaxSigTick}
    /\ DOMAIN sigStorage = SigKeys
    /\ sdkLoader.loadPromise \in {"null", "resolved", "rejected"}
    /\ sdkLoader.initPromise \in {"null", "resolved", "rejected"}
    /\ sdkRetry.i \in 0 .. DefaultMaxRetries
    /\ fhevm.status \in {"idle", "loading", "ready", "error"}
    /\ fhevm.retryCount \in 0 .. MaxRetryCount
    /\ fhevmRefs.aborted \in 0 .. MaxAborted

\* constructor
Init ==
    /\ now = GenesisTime
    /\ admin = Deployer
    /\ nextCourseId = 1
    /\ courses = [i \in IdSpace |-> ZeroCourse]
    /\ isTeacher = [a \in Addr |-> FALSE]
    /\ isStudent = [a \in Addr |-> FALSE]
    /\ encryptedAttendance = [i \in IdSpace |-> [a \in Addr |-> ZeroHandle]]
    /\ encryptedTotalAttendance = [i \in IdSpace |-> ZeroHandle]
    /\ encryptedStudentScore = [a \in Addr |-> ZeroHandle]
    /\ isLoading = FALSE
    /\ error = NoError
    /\ hookPc = "idle"
    /\ hookCall = NoCall
    /\ sigClock = 0
    /\ sigStorage = [k \in SigKeys |-> NoSig]
    /\ sigCall = NoSigCall
    /\ sdkLoader = FreshLoader
    /\ sdkRetry = NoRetry
    /\ fhevm = FhevmInitial
    /\ fhevmRefs = FhevmRefsInitial

\* number of entries of the ledger: role grants, courses, written cells
Count(S) == Cardinality(S)
LedgerSize ==
    Count({a \in Addr : isTeacher[a]}) + Count({a \in Addr : isStudent[a]})
    + (nextCourseId - 1)
    + Count({p \in IdSpace \X Addr : encryptedAttendance[p[1]][p[2]].init})

\* ----------------------------------------------------------- modifiers
onlyAdmin(sender) == IF sender = admin THEN OK ELSE "Only admin"
onlyTeacher(sender) == IF isTeacher[sender] THEN OK ELSE "Only teacher"
onlyStudent(sender) == IF isStudent[sender] THEN OK ELSE "Only student"

courseExists(courseId) ==
    IF ~(courseId > 0 /\ courseId < nextCourseId) THEN "Course does not exist"
    ELSE IF courses[courseId].courseId # courseId THEN "Course not initialized"
    ELSE OK

\* ------------------------------------------------- role registration
registerTeacherRevert(sender, teacher) == onlyAdmin(sender)

registerTeacher(sender, teacher) ==
    /\ registerTeacherRevert(sender, teacher) = OK
    /\ isTeacher[teacher] \/ LedgerSize < MaxLedger
    /\ isTeacher' = [isTeacher EXCEPT ![teacher] = TRUE]
    /\ UNCHANGED <<now, admin, nextCourseId, courses, isStudent,
                   encryptedAttendance, encryptedTotalAttendance, encryptedStudentScore>>

\* mutant: a registered teacher is refused as a student
registerStudentRevert_notTeacher(sender, student) ==
    IF onlyAdmin(sender) # OK THEN onlyAdmin(sender)
    ELSE IF isTeacher[student] THEN "Teachers cannot be registered as students"
    ELSE OK

registerStudentRevert(sender, student) == onlyAdmin(sender)

\* mutant: registering an address as student takes its teacher role away
registerStudent_revokesTeacher(sender, student) ==
    /\ registerStudentRevert(sender, student) = OK
    /\ isStudent[student] \/ LedgerSize < MaxLedger
    /\ isStudent' = [isStudent EXCEPT ![student] = TRUE]
    /\ isTeacher' = [isTeacher EXCEPT ![student] = FALSE]
    /\ UNCHANGED <<now, admin, nextCourseId, courses,
                   encryptedAttendance, encryptedTotalAttendance, encryptedStudentScore>>

\* mutant: the admin's registration initializes the score as selfRegister does
registerStudent_initScore(sender, student) ==
    /\ registerStudentRevert(sender, student) = OK
    /\ isStudent[student] \/ LedgerSize < MaxLedger
    /\ isStudent' = [isStudent EXCEPT ![student] = TRUE]
    /\ encryptedStudentScore' =
         [encryptedStudentScore EXCEPT ![student] = allow(allowThis(asEuint32(0)), student)]
    /\ UNCHANGED <<now, admin, nextCourseId, courses, isTeacher,
                   encryptedAttendance, encryptedTotalAttendance>>

registerStudent(sender, student) ==
    /\ registerStudentRevert(sender, student) = OK
    /\ isStudent[student] \/ LedgerSize < MaxLedger
    /\ isStudent' = [isStudent EXCEPT ![student] = TRUE]
    /\ UNCHANGED <<now, admin, nextCourseId, courses, isTeacher,
                   encryptedAttendance, encryptedTotalAttendance, encryptedStudentScore>>

\* mutant: the repeat-registration require is missing
selfRegisterRevert_noStudentCheck(sender) ==
    IF isTeacher[sender] THEN "Teachers cannot self-register as students"
    ELSE OK

selfRegisterRevert(sender) ==
    IF isTeacher[sender] THEN "Teachers cannot self-register as students"
    ELSE IF isStudent[sender] THEN "Already registered as student"
    ELSE OK

selfRegister(sender) ==
    /\ selfRegisterRevert(sender) = OK
    /\ LedgerSize < MaxLedger
    /\ isStudent' = [isStudent EXCEPT ![sender] = TRUE]
    /\ encryptedStudentScore' =
         [encryptedStudentScore EXCEPT ![sender] = allow(allowThis(asEuint32(0)), sender)]
    /\ UNCHANGED <<now, admin, nextCourseId, courses, isTeacher,
                   encryptedAttendance, encryptedTotalAttendance>>

\* ------------------------------------------------------ course lifecycle
\* mutant: endTime >= startTime in place of endTime > startTime
createCourseRevert_endNotBefore(sender, name, startTime, endTime) ==
    IF onlyTeacher(sender) # OK THEN onlyTeacher(sender)
    ELSE IF now < Grace THEN "Panic(0x11)"
    ELSE IF ~(startTime > now - Grace) THEN "Start time must not be too far in the past"
    ELSE IF ~(endTime >= startTime) THEN "End time must be after start"
    ELSE OK

\* mutant: the start time must lie in the future, without a grace window
createCourseRevert_futureOnly(sender, name, startTime, endTime) ==
    IF onlyTeacher(sender) # OK THEN onlyTeacher(sender)
    ELSE IF ~(startTime > now) THEN "Start time must not be too far in the past"
    ELSE IF ~(endTime > startTime) THEN "End time must be after start"
    ELSE OK

\* block.timestamp - 300 is checked arithmetic: it panics below 300
createCourseRevert(sender, name, startTime, endTime) ==
    IF onlyTeacher(sender) # OK THEN onlyTeacher(sender)
    ELSE IF now < Grace THEN "Panic(0x11)"
    ELSE IF ~(startTime > now - Grace) THEN "Start time must not be too far in the past"
    ELSE IF ~(endTime > startTime) THEN "End time must be after start"
    ELSE OK

\* the CourseCreated event of an accepted createCourse
createCourseEvent(sender, name) ==
    [event |-> "CourseCreated", courseId |-> nextCourseId, name |-> name,
     teacher |-> sender]

\* mutant: the creating teacher is not authorized on the new total
createCourse_noTeacherAllow(sender, name, startTime, endTime) ==
    /\ nextCourseId <= MaxCourses
    /\ LedgerSize < MaxLedger
    /\ createCourseRevert(sender, name, startTime, endTime) = OK
    /\ nextCourseId' = nextCourseId + 1
    /\ courses' = [courses EXCEPT ![nextCourseId] =
                     [courseId |-> nextCourseId, name |-> name, teacher |-> sender,
                      startTime |-> startTime, endTime |-> endTime,
                      isActive |-> TRUE, isFinalized |-> FALSE]]
    /\ encryptedTotalAttendance' =
         [encryptedTotalAttendance EXCEPT ![nextCourseId] = allowThis(asEuint32(0))]
    /\ UNCHANGED <<now, admin, isTeacher, isStudent,
                   encryptedAttendance, encryptedStudentScore>>

\* mutant: the courseId field of the stored course counts from 0
createCourse_zeroBasedId(sender, name, startTime, endTime) ==
    /\ nextCourseId <= MaxCourses
    /\ LedgerSize < MaxLedger
    /\ createCourseRevert(sender, name, startTime, endTime) = OK
    /\ nextCourseId' = nextCourseId + 1
    /\ courses' = [courses EXCEPT ![nextCourseId] =
                     [courseId |-> nextCourseId - 1, name |-> name, teacher |-> sender,
                      startTime |-> startTime, endTime |-> endTime,
                      isActive |-> TRUE, isFinalized |-> FALSE]]
    /\ encryptedTotalAttendance' =
         [encryptedTotalAttendance EXCEPT ![nextCourseId] =
            allow(allowThis(asEuint32(0)), sender)]
    /\ UNCHANGED <<now, admin, isTeacher, isStudent,
                   encryptedAttendance, encryptedStudentScore>>

\* mutant: ++nextCourseId in place of nextCourseId++
createCourse_preIncrement(sender, name, startTime, endTime) ==
    /\ nextCourseId <= MaxCourses
    /\ LedgerSize < MaxLedger
    /\ createCourseRevert(sender, name, startTime, endTime) = OK
    /\ nextCourseId' = nextCourseId + 1
    /\ courses' = [courses EXCEPT ![nextCourseId + 1] =
                     [courseId |-> nextCourseId + 1, name |-> name, teacher |-> sender,
                      startTime |-> startTime, endTime |-> endTime,
                      isActive |-> TRUE, isFinalized |-> FALSE]]
    /\ encryptedTotalAttendance' =
         [encryptedTotalAttendance EXCEPT ![nextCourseId + 1] =
            allow(allowThis(asEuint32(0)), sender)]
    /\ UNCHANGED <<now, admin, isTeacher, isStudent,
                   encryptedAttendance, encryptedStudentScore>>

createCourse(sender, name, startTime, endTime) ==
    /\ nextCourseId <= MaxCourses
    /\ LedgerSize < MaxLedger
    /\ createCourseRevert(sender, name, startTime, endTime) = OK
    /\ nextCourseId' = nextCourseId + 1
    /\ courses' = [courses EXCEPT ![nextCourseId] =
                     [courseId |-> nextCourseId, name |-> name, teacher |-> sender,
                      startTime |-> startTime, endTime |-> endTime,
                      isActive |-> TRUE, isFinalized |-> FALSE]]
    /\ encryptedTotalAttendance' =
         [encryptedTotalAttendance EXCEPT ![nextCourseId] =
            allow(allowThis(asEuint32(0)), sender)]
    /\ UNCHANGED <<now, admin, isTeacher, isStudent,
                   encryptedAttendance, encryptedStudentScore>>

\* mutant: any registered teacher may finalize
finalizeCourseRevert_anyTeacher(sender, courseId) ==
    IF onlyTeacher(sender) # OK THEN onlyTeacher(sender)
    ELSE IF ~(courses[courseId].courseId # 0) THEN "Course does not exist"
    ELSE IF courses[courseId].isFinalized THEN "Course already finalized"
    ELSE OK

finalizeCourseRevert(sender, courseId) ==
    IF onlyTeacher(sender) # OK THEN onlyTeacher(sender)
    ELSE IF ~(courses[courseId].courseId # 0) THEN "Course does not exist"
    ELSE IF ~(courses[courseId].teacher = sender) THEN "Only course teacher can finalize"
    ELSE IF courses[courseId].isFinalized THEN "Course already finalized"
    ELSE OK

\* mutant: isActive is left as it was
finalizeCourse_keepsActive(sender, courseId) ==
    /\ finalizeCourseRevert(sender, courseId) = OK
    /\ courses' = [courses EXCEPT ![courseId].isFinalized = TRUE]
    /\ UNCHANGED <<now, admin, nextCourseId, isTeacher, isStudent,
                   encryptedAttendance, encryptedTotalAttendance, encryptedStudentScore>>

\* mutant: finalizing also closes the check-in window at the current time
finalizeCourse_setsEndTime(sender, courseId) ==
    /\ finalizeCourseRevert(sender, courseId) = OK
    /\ courses' = [courses EXCEPT ![courseId].isFinalized = TRUE,
                                  ![courseId].isActive = FALSE,
                                  ![courseId].endTime = now]
    /\ UNCHANGED <<now, admin, nextCourseId, isTeacher, isStudent,
                   encryptedAttendance, encryptedTotalAttendance, encryptedStudentScore>>

\* mutant: finalizing flips isActive in place of clearing it
finalizeCourse_togglesActive(sender, courseId) ==
    /\ finalizeCourseRevert(sender, courseId) = OK
    /\ courses' = [courses EXCEPT ![courseId].isFinalized = TRUE,
                                  ![courseId].isActive = ~courses[courseId].isActive]
    /\ UNCHANGED <<now, admin, nextCourseId, isTeacher, isStudent,
                   encryptedAttendance, encryptedTotalAttendance, encryptedStudentScore>>

finalizeCourse(sender, courseId) ==
    /\ finalizeCourseRevert(sender, courseId) = OK
    /\ courses' = [courses EXCEPT ![courseId].isFinalized = TRUE,
                                  ![courseId].isActive = FALSE]
    /\ UNCHANGED <<now, admin, nextCourseId, isTeacher, isStudent,
                   encryptedAttendance, encryptedTotalAttendance, encryptedStudentScore>>

\* mutant: the finalized require is missing
toggleCourseStatusRevert_noFinalized(sender, courseId) ==
    IF onlyTeacher(sender) # OK THEN onlyTeacher(sender)
    ELSE IF ~(courses[courseId].courseId # 0) THEN "Course does not exist"
    ELSE IF ~(courses[courseId].teacher = sender) THEN "Only course teacher can modify"
    ELSE OK

toggleCourseStatusRevert(sender, courseId) ==
    IF onlyTeacher(sender) # OK THEN onlyTeacher(sender)
    ELSE IF ~(courses[courseId].courseId # 0) THEN "Course does not exist"
    ELSE IF ~(courses[courseId].teacher = sender) THEN "Only course teacher can modify"
    ELSE IF courses[courseId].isFinalized THEN "Cannot modify finalized course"
    ELSE OK

toggleCourseStatus(sender, courseId) ==
    /\ toggleCourseStatusRevert(sender, courseId) = OK
    /\ courses' = [courses EXCEPT ![courseId].isActive = ~courses[courseId].isActive]
    /\ UNCHANGED <<now, admin, nextCourseId, isTeacher, isStudent,
                   encryptedAttendance, encryptedTotalAttendance, encryptedStudentScore>>

\* ------------------------------------------------------------- check-in
\* mutant: block.timestamp > startTime in place of >=
checkInRevert_strictStart(sender, courseId, proofOk) ==
    IF onlyStudent(sender) # OK THEN onlyStudent(sender)
    ELSE IF courseExists(courseId) # OK THEN courseExists(courseId)
    ELSE IF ~(now > courses[courseId].startTime) THEN "Course not started"
    ELSE IF ~(now <= courses[courseId].endTime) THEN "Course already ended"
    ELSE IF courses[courseId].isFinalized THEN "Course finalized"
    ELSE IF ~proofOk THEN "Invalid proof"
    ELSE OK

\* mutant: the finalized require is missing
checkInRevert_noFinalized(sender, courseId, proofOk) ==
    IF onlyStudent(sender) # OK THEN onlyStudent(sender)
    ELSE IF courseExists(courseId) # OK THEN courseExists(courseId)
    ELSE IF ~(now >= courses[courseId].startTime) THEN "Course not started"
    ELSE IF ~(now <= courses[courseId].endTime) THEN "Course already ended"
    ELSE IF ~proofOk THEN "Invalid proof"
    ELSE OK

\* mutant: a student who already has a cell for the course is rejected
checkInRevert_once(sender, courseId, proofOk) ==
    IF onlyStudent(sender) # OK THEN onlyStudent(sender)
    ELSE IF courseExists(courseId) # OK THEN courseExists(courseId)
    ELSE IF ~(now >= courses[courseId].startTime) THEN "Course not started"
    ELSE IF ~(now <= courses[courseId].endTime) THEN "Course already ended"
    ELSE IF courses[courseId].isFinalized THEN "Course finalized"
    ELSE IF encryptedAttendance[courseId][sender].init THEN "Already checked in"
    ELSE IF ~proofOk THEN "Invalid proof"
    ELSE OK

\* mutant: the finalized require comes before the two time requires
checkInRevert_finalizedFirst(sender, courseId, proofOk) ==
    IF onlyStudent(sender) # OK THEN onlyStudent(sender)
    ELSE IF courseExists(courseId) # OK THEN courseExists(courseId)
    ELSE IF courses[courseId].isFinalized THEN "Course finalized"
    ELSE IF ~(now >= courses[courseId].startTime) THEN "Course not started"
    ELSE IF ~(now <= courses[courseId].endTime) THEN "Course already ended"
    ELSE IF ~proofOk THEN "Invalid proof"
    ELSE OK

\* FHE.fromExternal reverts on a proof the runtime does not accept
checkInRevert(sender, courseId, proofOk) ==
    IF onlyStudent(sender) # OK THEN onlyStudent(sender)
    ELSE IF courseExists(courseId) # OK THEN courseExists(courseId)
    ELSE IF ~(now >= courses[courseId].startTime) THEN "Course not started"
    ELSE IF ~(now <= courses[courseId].endTime) THEN "Course already ended"
    ELSE IF courses[courseId].isFinalized THEN "Course finalized"
    ELSE IF ~proofOk THEN "Invalid proof"
    ELSE OK

\* the 8-bit ciphertext FHE.fromExternal imports
fromExternal(plain) == asEuint8(plain)

\* mutant: the admin is authorized on every stored cell as well
checkInCell_adminAllowed(sender, courseId, plain) ==
    allow(allow(allow(allowThis(allow(allowThis(fromExternal(plain)), sender)), sender),
                courses[courseId].teacher), admin)

checkInCell(sender, courseId, plain) ==
    allow(allow(allowThis(allow(allowThis(fromExternal(plain)), sender)), sender),
          courses[courseId].teacher)

isAttending(plain) == FHEeq(fromExternal(plain), asEuint8(Present))

\* the new total of a course whose stored total is `total`
checkInTotalOn(total, sender, courseId, plain) ==
    allow(allow(allowThis(
        FHEadd(total, FHEselect(isAttending(plain), asEuint32(1), asEuint32(0)))),
        sender), courses[courseId].teacher)

\* the new score of a student whose stored score is `score`
checkInScoreOn(score, sender, plain) ==
    allow(allowThis(
        FHEadd(score,
               FHEselect(isAttending(plain), asEuint32(PresentPoints), asEuint32(0)))),
        sender)

\* mutant: the total counts every submission
checkInTotal_always(sender, courseId, plain) ==
    allow(allow(allowThis(
        FHEadd(encryptedTotalAttendance[courseId], asEuint32(1))),
        sender), courses[courseId].teacher)

checkInTotal(sender, courseId, plain) ==
    checkInTotalOn(encryptedTotalAttendance[courseId], sender, courseId, plain)

\* mutant: every submission earns the points
checkInScore_always(sender, plain) ==
    allow(allowThis(
        FHEadd(encryptedStudentScore[sender], asEuint32(PresentPoints))),
        sender)

checkInScore(sender, plain) ==
    checkInScoreOn(encryptedStudentScore[sender], sender, plain)

\* mutant: the points go to the score of the course's teacher
checkIn_scoreOfTeacher(sender, courseId, plain) ==
    /\ checkInRevert(sender, courseId, TRUE) = OK
    /\ Plain(encryptedStudentScore[sender]) + PresentPoints <= MaxScore
    /\ encryptedAttendance[courseId][sender].init \/ LedgerSize < MaxLedger
    /\ encryptedAttendance' =
         [encryptedAttendance EXCEPT ![courseId][sender] = checkInCell(sender, courseId, plain)]
    /\ encryptedTotalAttendance' =
         [encryptedTotalAttendance EXCEPT ![courseId] = checkInTotal(sender, courseId, plain)]
    /\ encryptedStudentScore' =
         [encryptedStudentScore EXCEPT ![courses[courseId].teacher] =
            checkInScore(courses[courseId].teacher, plain)]
    /\ UNCHANGED <<now, admin, nextCourseId, courses, isTeacher, isStudent>>

checkIn(sender, courseId, plain) ==
    /\ checkInRevert(sender, courseId, TRUE) = OK
    /\ Plain(encryptedStudentScore[sender]) + PresentPoints <= MaxScore
    /\ encryptedAttendance[courseId][sender].init \/ LedgerSize < MaxLedger
    /\ encryptedAttendance' =
         [encryptedAttendance EXCEPT ![courseId][sender] = checkInCell(sender, courseId, plain)]
    /\ encryptedTotalAttendance' =
         [encryptedTotalAttendance EXCEPT ![courseId] = checkInTotal(sender, courseId, plain)]
    /\ encryptedStudentScore' =
         [encryptedStudentScore EXCEPT ![sender] = checkInScore(sender, plain)]
    /\ UNCHANGED <<now, admin, nextCourseId, courses, isTeacher, isStudent>>

\* the encrypted part of the ledger, and what one accepted checkIn makes of it
Ledger ==
    [attendance |-> encryptedAttendance, total |-> encryptedTotalAttendance,
     score |-> encryptedStudentScore]

checkInOn(L, sender, courseId, plain) ==
    [attendance |-> [L.attendance EXCEPT ![courseId][sender] =
                        checkInCell(sender, courseId, plain)],
     total |-> [L.total EXCEPT ![courseId] =
                  checkInTotalOn(L.total[courseId], sender, courseId, plain)],
     score |-> [L.score EXCEPT ![sender] =
                  checkInScoreOn(L.score[sender], sender, plain)]]

\* ---------------------------------------------------------------- bonus
\* mutant: the onlyTeacher modifier is missing
generateRandomBonusRevert_anyone(sender, student) == OK

generateRandomBonusRevert(sender, student) == onlyTeacher(sender)

\* mutant: the student is not re-authorized on the new score
bonusScore_noReauth(student, randomBonus) ==
    allowThis(FHEadd(encryptedStudentScore[student],
                     asEuint32(Plain(asEuint8(randomBonus)))))

bonusScore(student, randomBonus) ==
    allow(allowThis(FHEadd(encryptedStudentScore[student],
                           asEuint32(Plain(asEuint8(randomBonus))))), student)

generateRandomBonus(sender, student, randomBonus) ==
    /\ generateRandomBonusRevert(sender, student) = OK
    /\ Plain(encryptedStudentScore[student]) + PresentPoints <= MaxScore
    /\ encryptedStudentScore' =
         [encryptedStudentScore EXCEPT ![student] = bonusScore(student, randomBonus)]
    /\ UNCHANGED <<now, admin, nextCourseId, courses, isTeacher, isStudent,
                   encryptedAttendance, encryptedTotalAttendance>>

\* ------------------------------------------------------------- comparison
compareStudentScoresRevert(sender, student1, student2) ==
    IF ~(sender = admin) THEN "Only admin can compare" ELSE OK

\* mutant: FHE.ge in place of FHE.gt
compareStudentScoresResult_notLess(student1, student2) ==
    allow(allowThis(
        [init |-> TRUE,
         val |-> IF ~FHEgt(encryptedStudentScore[student2], encryptedStudentScore[student1])
                 THEN 1 ELSE 0,
         acl |-> {}]), admin)

\* the encrypted boolean the call returns
compareStudentScoresResult(student1, student2) ==
    allow(allowThis(
        [init |-> TRUE,
         val |-> IF FHEgt(encryptedStudentScore[student1], encryptedStudentScore[student2])
                 THEN 1 ELSE 0,
         acl |-> {}]), admin)

\* the call writes no storage: its grants are on the result alone
compareStudentScores(sender, student1, student2) ==
    /\ compareStudentScoresRevert(sender, student1, student2) = OK
    /\ UNCHANGED vars

\* block.timestamp of the next block
Tick ==
    /\ now < GenesisTime + MaxTick
    /\ now' = now + 1
    /\ UNCHANGED <<admin, nextCourseId, courses, isTeacher, isStudent,
                   encryptedAttendance, encryptedTotalAttendance, encryptedStudentScore>>

\* ------------------------------------------------------------------ admin
\* the contract declares no updateAdmin and no fallback function, so a call
\* with that selector reverts whoever sends it
updateAdminRevert(sender, newAdmin) == "function selector was not recognized"

\* ------------------------------------------------------------------ reads
\* mutant: any registered teacher may read a student's cell
getStudentAttendanceRevert_anyTeacher(sender, courseId, student) ==
    IF courseExists(courseId) # OK THEN courseExists(courseId)
    ELSE IF ~(sender = student \/ isTeacher[sender] \/ sender = admin)
         THEN "Not authorized"
    ELSE OK

getStudentAttendanceRevert(sender, courseId, student) ==
    IF courseExists(courseId) # OK THEN courseExists(courseId)
    ELSE IF ~(sender = student \/ sender = courses[courseId].teacher \/ sender = admin)
         THEN "Not authorized"
    ELSE OK

getStudentAttendance(courseId, student) == encryptedAttendance[courseId][student]

getCourseAttendanceRevert(sender, courseId) ==
    IF courseExists(courseId) # OK THEN courseExists(courseId)
    ELSE IF ~(sender = courses[courseId].teacher \/ sender = admin)
         THEN "Not authorized"
    ELSE OK

getCourseAttendance(courseId) == encryptedTotalAttendance[courseId]

getStudentScoreRevert(sender, student) ==
    IF ~(sender = student \/ sender = admin) THEN "Not authorized"
    ELSE OK

getStudentScore(student) == encryptedStudentScore[student]

getCourseInfoRevert(courseId) == courseExists(courseId)

getCourseInfo(courseId) ==
    [name |-> courses[courseId].name, teacher |-> courses[courseId].teacher,
     startTime |-> courses[courseId].startTime, endTime |-> courses[courseId].endTime,
     isFinalized |-> courses[courseId].isFinalized]

getCourseDebugInfoRevert(courseId) == courseExists(courseId)

getCourseDebugInfo(courseId) ==
    [name |-> courses[courseId].name, teacher |-> courses[courseId].teacher,
     startTime |-> courses[courseId].startTime, endTime |-> courses[courseId].endTime,
     isActive |-> courses[courseId].isActive,
     isFinalized |-> courses[courseId].isFinalized,
     currentTime |-> now,
     canCheckIn |-> /\ now >= courses[courseId].startTime
                    /\ now <= courses[courseId].endTime
                    /\ ~courses[courseId].isFinalized
                    /\ courses[courseId].isActive]

\* hasStudentCheckedIn (view): courseExists; the body reads no storage and
\* returns the literal true, whatever the student
hasStudentCheckedInRevert(courseId) == courseExists(courseId)

hasStudentCheckedIn(courseId, student) == TRUE

\* The ledger on its own: any account calls any function; the hook is idle.
Next ==
    \/ \E s \in Addr, t \in TeacherArgs :
          registerTeacher(s, t) /\ UNCHANGED <<hookVars, clientVars>>
    \/ \E s \in Addr, t \in StudentArgs :
          registerStudent(s, t) /\ UNCHANGED <<hookVars, clientVars>>
    \/ \E s \in SelfRegistrants :
          selfRegister(s) /\ UNCHANGED <<hookVars, clientVars>>
    \/ \E s \in Addr, n \in CourseNames, b \in StartTimes, d \in Durations :
          createCourse(s, n, b, b + d) /\ UNCHANGED <<hookVars, clientVars>>
    \/ \E s \in Addr, c \in IdSpace :
          finalizeCourse(s, c) /\ UNCHANGED <<hookVars, clientVars>>
    \/ \E s \in Addr, c \in IdSpace :
          toggleCourseStatus(s, c) /\ UNCHANGED <<hookVars, clientVars>>
    \/ \E s \in Addr, c \in IdSpace, p \in StatusValues :
          checkIn(s, c, p) /\ UNCHANGED <<hookVars, clientVars>>
    \/ \E s \in Addr, t \in BonusArgs, r \in BonusValues :
          generateRandomBonus(s, t, r) /\ UNCHANGED <<hookVars, clientVars>>
    \/ \E s \in Addr, a \in StudentArgs, b \in BonusArgs :
          compareStudentScores(s, a, b) /\ UNCHANGED <<hookVars, clientVars>>
    \/ Tick /\ UNCHANGED <<hookVars, clientVars>>

Spec == Init /\ [][Next]_allVars

\* ----------------------------------------- the client hook (part_000)
\* useMaskedAttendance runs one transaction operation at a time
\* (registerAsStudent, createCourse, checkIn, finalizeCourse).  Each has the
\* same shape:
\*     setIsLoading(true); setError(null);
\*     try     { tx = await contract.f(...); await tx.wait(); }
\*     catch   { handleError(error, ...) }
\*     finally { setIsLoading(false) }
\* hookPc is the position of the running operation: "started" after the two
\* setters, "pending" once the transaction is sent and tx.wait() is awaited,
\* "included" / "failed" when the try block has been left normally / by an
\* exception, "dropped" when the network has discarded the pending
\* transaction, so that the promise of tx.wait() never settles.
HookSigners == {"a0", "a2"}

HookCourseIds == {1}

\* input.add8(BigInt(isAttending ? 1 : 2))
hookStatus(attending) == IF attending THEN Present ELSE Present + 1

HookCalls ==
    {[NoCall EXCEPT !.op = "registerAsStudent", !.signer = s] : s \in HookSigners}
    \cup {[NoCall EXCEPT !.op = "createCourse", !.signer = s,
                         !.startTime = b, !.endTime = b + 1] :
             s \in HookSigners, b \in StartTimes}
    \cup {[NoCall EXCEPT !.op = "checkIn", !.signer = s, !.courseId = c,
                         !.status = hookStatus(a)] :
             s \in HookSigners, c \in HookCourseIds, a \in BOOLEAN}
    \cup {[NoCall EXCEPT !.op = "finalizeCourse", !.signer = s, !.courseId = c] :
             s \in HookSigners, c \in HookCourseIds}

\* The checks checkIn of the hook makes on what it reads from the ledger
\* before it encrypts and sends; each throws, and the catch block records
\* the message (the messages are Chinese text in the source; the model
\* keeps a tag for each).
hookPrecheck(c) ==
    IF c.op # "checkIn" THEN OK
    ELSE IF ~isStudent[c.signer] THEN "hook: not registered as student"
    ELSE IF courses[c.courseId].courseId = 0 THEN "hook: course does not exist"
    ELSE IF now < courses[c.courseId].startTime THEN "hook: course not started"
    ELSE IF now > courses[c.courseId].endTime THEN "hook: course ended"
    ELSE IF courses[c.courseId].isFinalized THEN "hook: course finalized"
    ELSE OK

\* what the ledger answers to the call of the operation in the current state
hookRevert(c) ==
    IF c.op = "registerAsStudent" THEN selfRegisterRevert(c.signer)
    ELSE IF c.op = "createCourse"
        THEN createCourseRevert(c.signer, "math", c.startTime, c.endTime)
    ELSE IF c.op = "checkIn" THEN checkInRevert(c.signer, c.courseId, TRUE)
    ELSE finalizeCourseRevert(c.signer, c.courseId)

\* the call of the operation taking effect on the ledger
hookEffect(c) ==
    \/ c.op = "registerAsStudent" /\ selfRegister(c.signer)
    \/ c.op = "createCourse"
          /\ createCourse(c.signer, "math", c.startTime, c.endTime)
    \/ c.op = "checkIn" /\ checkIn(c.signer, c.courseId, c.status)
    \/ c.op = "finalizeCourse" /\ finalizeCourse(c.signer, c.courseId)

\* if (!contractRef.current) { setError("Contract not available"); return; }
\* the operation ends before it touches isLoading
hookUnavailable ==
    /\ hookPc = "idle"
    /\ error' = "Contract not available"
    /\ UNCHANGED <<isLoading, hookPc, hookCall, vars>>
    /\ UNCHANGED clientVars

\* setIsLoading(true); setError(null);
hookBegin(c) ==
    /\ hookPc = "idle"
    /\ isLoading' = TRUE
    /\ error' = NoError
    /\ hookPc' = "started"
    /\ hookCall' = c
    /\ UNCHANGED vars
    /\ UNCHANGED clientVars

\* try { ... tx = await contractRef.current.f(...) }: a precheck that throws,
\* or a call the node already rejects when the gas is estimated, goes to the
\* catch block, where handleError records the message; otherwise the
\* transaction is sent.
hookSubmit ==
    /\ hookPc = "started"
    /\ IF hookPrecheck(hookCall) # OK
         THEN hookPc' = "failed" /\ error' = hookPrecheck(hookCall)
         ELSE IF hookRevert(hookCall) # OK
           THEN hookPc' = "failed" /\ error' = hookRevert(hookCall)
           ELSE hookPc' = "pending" /\ error' = error
    /\ UNCHANGED <<isLoading, hookCall, vars>>
    /\ UNCHANGED clientVars

\* the wallet refuses to sign: handleError, error.code === 4001
hookReject ==
    /\ hookPc = "started"
    /\ hookPrecheck(hookCall) = OK
    /\ hookPc' = "failed"
    /\ error' = "Transaction rejected by user"
    /\ UNCHANGED <<isLoading, hookCall, vars>>
    /\ UNCHANGED clientVars

\* await tx.wait() resolves: the transaction is included and succeeds
hookInclude ==
    /\ hookPc = "pending"
    /\ hookRevert(hookCall) = OK
    /\ hookEffect(hookCall)
    /\ hookPc' = "included"
    /\ UNCHANGED <<isLoading, error, hookCall>>
    /\ UNCHANGED clientVars

\* await tx.wait() rejects: the transaction is included and reverts, the
\* ledger having changed since it was sent
hookRevertOnChain ==
    /\ hookPc = "pending"
    /\ hookRevert(hookCall) # OK
    /\ hookPc' = "failed"
    /\ error' = hookRevert(hookCall)
    /\ UNCHANGED <<isLoading, hookCall, vars>>
    /\ UNCHANGED clientVars

\* The pending transaction is discarded by the network and never included.
\* tx.wait() is called without a timeout, so its promise stays pending: no
\* step of the operation follows this one.
hookDrop ==
    /\ hookPc = "pending"
    /\ hookPc' = "dropped"
    /\ UNCHANGED <<isLoading, error, hookCall, vars>>
    /\ UNCHANGED clientVars

\* finally { setIsLoading(false); }
hookFinally ==
    /\ hookPc \in {"included", "failed"}
    /\ isLoading' = FALSE
    /\ hookPc' = "idle"
    /\ hookCall' = NoCall
    /\ UNCHANGED <<error, vars>>
    /\ UNCHANGED clientVars

\* the fate of a pending transaction is decided
hookSettle == hookInclude \/ hookRevertOnChain \/ hookDrop

\* The hook in front of the ledger: the operations of the hook, the admin
\* registering teachers directly, and time passing.
HookNext ==
    \/ hookUnavailable
    \/ \E c \in HookCalls : hookBegin(c)
    \/ hookSubmit
    \/ hookReject
    \/ hookInclude
    \/ hookRevertOnChain
    \/ hookDrop
    \/ hookFinally
    \/ \E t \in TeacherArgs : registerTeacher(admin, t) /\ UNCHANGED <<hookVars, clientVars>>
    \/ Tick /\ UNCHANGED <<hookVars, clientVars>>

\* The continuations of an async function run once the promise they await
\* has settled (weak fairness of hookSubmit and hookFinally), and the
\* network eventually decides what happens to a pending transaction (weak
\* fairness of hookSettle).
HookSpec ==
    /\ Init
    /\ [][HookNext]_allVars
    /\ WF_allVars(hookSubmit)
    /\ WF_allVars(hookSettle)
    /\ WF_allVars(hookFinally)

\* ------------------------------- FhevmDecryptionSignatureManager
\* Every call of the manager is one step.  sigCall records the call: its
\* arguments, what the storage held under the key it looked up ("none",
\* "valid", "expired"), whether signer.signTypedData was requested, what
\* the call returned and the clock at its return.
sigExpiry(sig) == sig.startTimestamp + sig.durationDays * SecondsPerDay

\* isSignatureValid: now < expiry
isSignatureValid(sig) == sigClock < sigExpiry(sig)

\* mutant: a signature is created with a duration of 0 days
createSignatureResult_zeroDuration(contractAddresses, signer, keyPair, generated, signerOk) ==
    IF ~signerOk THEN NoSig
    ELSE [publicKey |-> IF keyPair = "" THEN generated ELSE keyPair,
          startTimestamp |-> sigClock,
          durationDays |-> 0,
          userAddress |-> signer,
          contractAddresses |-> contractAddresses]

\* createSignature: the key pair given or a generated one, startTimestamp
\* = now, durationDays = SIGNATURE_DURATION_DAYS, signed by the signer;
\* null if the signer refuses (the catch block)
createSignatureResult(contractAddresses, signer, keyPair, generated, signerOk) ==
    IF ~signerOk THEN NoSig
    ELSE [publicKey |-> IF keyPair = "" THEN generated ELSE keyPair,
          startTimestamp |-> sigClock,
          durationDays |-> SIGNATURE_DURATION_DAYS,
          userAddress |-> signer,
          contractAddresses |-> contractAddresses]

\* DecryptionSignatureStorage.load: null if nothing is stored under the key,
\* null (and the entry removed) if now >= expiry, else the entry
storageLoad(key) ==
    IF sigStorage[key] = NoSig THEN NoSig
    ELSE IF sigClock >= sigExpiry(sigStorage[key]) THEN NoSig
    ELSE sigStorage[key]

storageAfterLoad(key) ==
    IF sigStorage[key] # NoSig /\ sigClock >= sigExpiry(sigStorage[key])
        THEN [sigStorage EXCEPT ![key] = NoSig]
        ELSE sigStorage

\* saveSignature / DecryptionSignatureStorage.save: the key is generated
\* from the signature's own publicKey
storageSave(storage, sig) ==
    [storage EXCEPT
       ![generateKey(sig.userAddress, sig.contractAddresses, sig.publicKey)] = sig]

\* what the storage holds under a key, as a call finds it
sigFound(key) ==
    IF sigStorage[key] = NoSig THEN "none"
    ELSE IF sigClock >= sigExpiry(sigStorage[key]) THEN "expired"
    ELSE "valid"

\* loadSignature: storage.load, then isSignatureValid once more; an entry
\* that fails it is removed
loadSignatureResult(userAddress, contractAddresses, publicKey) ==
    LET data == storageLoad(generateKey(userAddress, contractAddresses, publicKey))
    IN  IF data = NoSig THEN NoSig
        ELSE IF isSignatureValid(data) THEN data
        ELSE NoSig

loadSignatureStorage(userAddress, contractAddresses, publicKey) ==
    LET key == generateKey(userAddress, contractAddresses, publicKey)
        data == storageLoad(key)
    IN  IF data # NoSig /\ ~isSignatureValid(data)
            THEN [storageAfterLoad(key) EXCEPT ![key] = NoSig]
            ELSE storageAfterLoad(key)

loadSignature(userAddress, contractAddresses, publicKey) ==
    /\ sigStorage' = loadSignatureStorage(userAddress, contractAddresses, publicKey)
    /\ sigCall' = [op |-> "loadSignature",
                   userAddress |-> userAddress,
                   contractAddresses |-> contractAddresses,
                   publicKey |-> publicKey,
                   found |-> sigFound(generateKey(userAddress, contractAddresses, publicKey)),
                   signed |-> FALSE,
                   result |-> loadSignatureResult(userAddress, contractAddresses, publicKey),
                   at |-> sigClock]
    /\ UNCHANGED <<sigClock, notSigVars>>

\* getOrCreateSignature: the signature loaded under keyPair?.publicKey if
\* there is one; else createSignature and, unless that returned null,
\* saveSignature
getOrCreateSignature(signer, contractAddresses, keyPair, generated, signerOk) ==
    LET loaded == loadSignatureResult(signer, contractAddresses, keyPair)
        afterLoad == loadSignatureStorage(signer, contractAddresses, keyPair)
        created == createSignatureResult(contractAddresses, signer, keyPair,
                                         generated, signerOk)
    IN  /\ sigStorage' = IF loaded # NoSig \/ created = NoSig
                           THEN afterLoad
                           ELSE storageSave(afterLoad, created)
        /\ sigCall' = [op |-> "getOrCreateSignature",
                       userAddress |-> signer,
                       contractAddresses |-> contractAddresses,
                       publicKey |-> keyPair,
                       found |-> sigFound(generateKey(signer, contractAddresses, keyPair)),
                       signed |-> (loaded = NoSig),
                       result |-> IF loaded # NoSig THEN loaded ELSE created,
                       at |-> sigClock]
        /\ UNCHANGED <<sigClock, notSigVars>>

\* removeSignature: storage.remove under the key of the arguments
removeSignature(userAddress, contractAddresses, publicKey) ==
    /\ sigStorage' =
         [sigStorage EXCEPT ![generateKey(userAddress, contractAddresses, publicKey)] = NoSig]
    /\ sigCall' = [NoSigCall EXCEPT !.op = "removeSignature",
                                    !.userAddress = userAddress,
                                    !.contractAddresses = contractAddresses,
                                    !.publicKey = publicKey,
                                    !.at = sigClock]
    /\ UNCHANGED <<sigClock, notSigVars>>

\* Math.floor(Date.now() / 1000) grows
SigTick ==
    /\ sigClock < MaxSigTick * SigClockStep
    /\ sigClock' = sigClock + SigClockStep
    /\ UNCHANGED <<sigStorage, sigCall, notSigVars>>

SigNext ==
    \/ \E u \in SigUsers, c \in ContractLists, k \in KeyPairs \cup GeneratedKeys :
          loadSignature(u, c, k)
    \/ \E u \in SigUsers, c \in ContractLists, k \in KeyPairs,
          g \in GeneratedKeys, ok \in BOOLEAN :
          getOrCreateSignature(u, c, k, g, ok)
    \/ \E u \in SigUsers, c \in ContractLists, k \in KeyPairs :
          removeSignature(u, c, k)
    \/ SigTick

\* the signature manager on its own
SigSpec == Init /\ [][SigNext]_allVars

\* ------------------------------------------------------ FhevmSDKLoader
\* A promise field of the loader is "null", "resolved" or "rejected".
\* isInitialized(): isLoaded() and window.relayerSDK.__initialized__
isInitialized(L) == L.loaded /\ L.initialized

\* loadSDK: the cached loadPromise if there is one; nothing to do if the
\* SDK is on the window; else the script is added to the page and
\* loadPromise keeps how that went
loadSDKOk(L, scriptOk) ==
    IF L.loadPromise # "null" THEN L.loadPromise = "resolved"
    ELSE IF L.loaded THEN TRUE
    ELSE scriptOk

loadSDKLoader(L, scriptOk) ==
    IF L.loadPromise # "null" \/ L.loaded THEN L
    ELSE IF scriptOk THEN [L EXCEPT !.loaded = TRUE, !.loadPromise = "resolved"]
    ELSE [L EXCEPT !.loadPromise = "rejected"]

\* initSDK: the cached initPromise if there is one, whether it resolved or
\* rejected; true if already initialized; else loadSDK if needed, then
\* initPromise = the promise of one call of window.relayerSDK.initSDK.
\* Yields the loader afterwards, whether the promise returned resolves to
\* true, and whether window.relayerSDK.initSDK was called.
initSDK(L, scriptOk, initOk) ==
    IF L.initPromise # "null"
        THEN [loader |-> L, ok |-> (L.initPromise = "resolved"), called |-> FALSE]
    ELSE IF isInitialized(L)
        THEN [loader |-> L, ok |-> TRUE, called |-> FALSE]
    ELSE IF ~L.loaded /\ ~loadSDKOk(L, scriptOk)
        THEN [loader |-> loadSDKLoader(L, scriptOk), ok |-> FALSE, called |-> FALSE]
    ELSE LET L1 == IF L.loaded THEN L ELSE loadSDKLoader(L, scriptOk)
         IN  IF initOk
               THEN [loader |-> [L1 EXCEPT !.initialized = TRUE,
                                           !.initPromise = "resolved"],
                     ok |-> TRUE, called |-> TRUE]
               ELSE [loader |-> [L1 EXCEPT !.initPromise = "rejected"],
                     ok |-> FALSE, called |-> TRUE]

\* reset(): both promises forgotten, window.relayerSDK deleted.  Nothing
\* in initSDKWithRetry calls it; here it is a call from elsewhere, made
\* while no run of initSDKWithRetry is under way.
sdkReset ==
    /\ sdkRetry.pc # "running"
    /\ sdkLoader' = FreshLoader
    /\ UNCHANGED <<sdkRetry, notSdkVars>>

\* loadAndInitSDK, called from elsewhere while no run is under way
loadAndInitSDK(scriptOk, initOk) ==
    /\ sdkRetry.pc # "running"
    /\ sdkLoader' = IF loadSDKOk(sdkLoader, scriptOk)
                      THEN initSDK(loadSDKLoader(sdkLoader, scriptOk), scriptOk, initOk).loader
                      ELSE loadSDKLoader(sdkLoader, scriptOk)
    /\ UNCHANGED <<sdkRetry, notSdkVars>>

\* initSDKWithRetry(options, maxRetries, retryDelay) is called: i = 0
initSDKWithRetryBegin(maxRetries, plan) ==
    /\ sdkRetry.pc # "running"
    /\ sdkRetry' = [pc |-> "running", i |-> 0, maxRetries |-> maxRetries,
                    plan |-> plan, calls |-> 0, result |-> "none"]
    /\ UNCHANGED <<sdkLoader, notSdkVars>>

\* one turn of the loop: return await sdkLoader.initSDK(options), or the
\* catch block and i++
initSDKWithRetryAttempt(scriptOk) ==
    /\ sdkRetry.pc = "running"
    /\ sdkRetry.i < sdkRetry.maxRetries
    /\ LET r == initSDK(sdkLoader, scriptOk, sdkRetry.plan[sdkRetry.calls + 1])
           calls == IF r.called THEN sdkRetry.calls + 1 ELSE sdkRetry.calls
       IN  /\ sdkLoader' = r.loader
           /\ sdkRetry' = IF r.ok
                            THEN [sdkRetry EXCEPT !.pc = "done", !.result = "true",
                                                  !.calls = calls]
                            ELSE [sdkRetry EXCEPT !.i = sdkRetry.i + 1,
                                                  !.calls = calls]
    /\ UNCHANGED notSdkVars

\* the loop is left: throw new SDKInitError(...)
initSDKWithRetryThrow ==
    /\ sdkRetry.pc = "running"
    /\ sdkRetry.i >= sdkRetry.maxRetries
    /\ sdkRetry' = [sdkRetry EXCEPT !.pc = "done", !.result = "SDKInitError"]
    /\ UNCHANGED <<sdkLoader, notSdkVars>>

SdkNext ==
    \/ sdkReset
    \/ \E s \in BOOLEAN, ok \in BOOLEAN : loadAndInitSDK(s, ok)
    \/ \E n \in RetryCounts, p \in InitPlans : initSDKWithRetryBegin(n, p)
    \/ \E s \in BOOLEAN : initSDKWithRetryAttempt(s)
    \/ initSDKWithRetryThrow

\* the SDK loader on its own
SdkSpec == Init /\ [][SdkNext]_allVars

\* ------------------------------------------------------------ useFhevm
\* fhevmRefs.active is the provider of the creation (createFhevmInstance)
\* awaited under the signal of abortControllerRef.current, "none" if there
\* is none; fhevmRefs.aborted counts the creations still in flight whose
\* signal has been aborted (beyond MaxAborted the oldest is forgotten,
\* which is what its settling would amount to).  effectPending: a
\* dependency of the lifecycle effect (createInstance, enabled, provider,
\* chainId) has changed and the effect has not run yet.
\* abortControllerRef.current.abort(): the awaited creation, if any, joins
\* the aborted ones
abortCurrent(R) ==
    IF R.active = "none" THEN R
    ELSE [R EXCEPT !.active = "none",
                   !.aborted = IF R.aborted < MaxAborted THEN R.aborted + 1
                               ELSE MaxAborted]

\* the props provider / enabled change (a chain change is a change of
\* provider here): the effect is due
fhevmProps(provider, enabled) ==
    /\ fhevmRefs.mounted
    /\ <<provider, enabled>> # <<fhevmRefs.provider, fhevmRefs.enabled>>
    /\ fhevmRefs' = [fhevmRefs EXCEPT !.provider = provider, !.enabled = enabled,
                                      !.effectPending = TRUE]
    /\ UNCHANGED <<fhevm, notFhevmVars>>

\* The lifecycle effect: the cleanup of its last run aborts the controller;
\* disabled or without a provider it resets the state; else it makes a new
\* AbortController and calls createInstance(signal), whose part before the
\* first await is: the retry bound, setStatus("loading"), the reuse of a
\* valid instance of the instanceManager, the call of createFhevmInstance.
fhevmEffect ==
    /\ fhevmRefs.mounted
    /\ fhevmRefs.effectPending
    /\ LET R == [abortCurrent(fhevmRefs) EXCEPT !.effectPending = FALSE]
       IN  IF ~R.enabled
             THEN /\ fhevmRefs' = [R EXCEPT !.managerFor = "none"]
                  /\ fhevm' = [fhevm EXCEPT !.instance = "undefined",
                                            !.error = "undefined", !.status = "idle"]
           ELSE IF R.provider = "none"
             THEN /\ fhevmRefs' = R
                  /\ fhevm' = [fhevm EXCEPT !.instance = "undefined",
                                            !.error = "undefined", !.status = "idle"]
           ELSE IF fhevm.retryCount >= MaxRetryCount
             THEN /\ fhevmRefs' = R
                  /\ fhevm' = [fhevm EXCEPT !.error = MaximumRetryError,
                                            !.status = "error"]
           ELSE IF R.managerFor = R.provider
             THEN /\ fhevmRefs' = R
                  /\ fhevm' = [fhevm EXCEPT !.instance = R.provider,
                                            !.error = "undefined", !.status = "ready"]
           ELSE /\ fhevmRefs' = [R EXCEPT !.active = R.provider]
                /\ fhevm' = [fhevm EXCEPT !.error = "undefined", !.status = "loading"]
    /\ UNCHANGED notFhevmVars

\* createFhevmInstance resolves under a signal that is not aborted:
\* setInstance(newInstance); setStatus("ready")
fhevmCreated ==
    /\ fhevmRefs.active # "none"
    /\ fhevm' = [fhevm EXCEPT !.instance = fhevmRefs.active, !.status = "ready"]
    /\ fhevmRefs' = [fhevmRefs EXCEPT !.active = "none",
                                      !.managerFor = fhevmRefs.active]
    /\ UNCHANGED notFhevmVars

\* createFhevmInstance rejects under a signal that is not aborted: the
\* catch block; the new retryCount makes a new createInstance, so the
\* effect is due
fhevmCreationFailed ==
    /\ fhevmRefs.active # "none"
    /\ fhevm' = [fhevm EXCEPT !.instance = "undefined",
                              !.error = "creation failed",
                              !.status = "error",
                              !.retryCount = fhevm.retryCount + 1]
    /\ fhevmRefs' = [fhevmRefs EXCEPT !.active = "none", !.effectPending = TRUE]
    /\ UNCHANGED notFhevmVars

\* mutant: a creation that settles after its signal was aborted publishes
\* its instance all the same
fhevmAbortedSettles_publishes(manager) ==
    /\ fhevmRefs.aborted > 0
    /\ fhevmRefs' = [fhevmRefs EXCEPT !.aborted = fhevmRefs.aborted - 1,
                                      !.managerFor = manager]
    /\ fhevm' = [fhevm EXCEPT !.instance = "p1", !.status = "ready"]
    /\ UNCHANGED notFhevmVars

\* A creation settles after its signal was aborted: if (signal.aborted)
\* return, on both ways out.  The instanceManager may have kept the
\* instance of that creation (if the abort came after its last check of
\* the signal).
fhevmAbortedSettles(manager) ==
    /\ fhevmRefs.aborted > 0
    /\ fhevmRefs' = [fhevmRefs EXCEPT !.aborted = fhevmRefs.aborted - 1,
                                      !.managerFor = manager]
    /\ UNCHANGED <<fhevm, notFhevmVars>>

\* refresh(): abort, clearInstance, the state reset with retryCount 0,
\* "loading" if there is a provider.  The effect is due only if retryCount
\* has changed (createInstance depends on nothing else).
fhevmRefresh ==
    /\ fhevmRefs.mounted
    /\ fhevmRefs' = [abortCurrent(fhevmRefs) EXCEPT
                       !.managerFor = "none",
                       !.effectPending = fhevmRefs.effectPending
                                           \/ fhevm.retryCount # 0]
    /\ fhevm' = [instance |-> "undefined", error |-> "undefined",
                 status |-> IF fhevmRefs.provider # "none" THEN "loading" ELSE "idle",
                 retryCount |-> 0]
    /\ UNCHANGED notFhevmVars

\* the component unmounts: the cleanups abort the controller
fhevmUnmount ==
    /\ fhevmRefs.mounted
    /\ fhevmRefs' = [abortCurrent(fhevmRefs) EXCEPT !.mounted = FALSE,
                                                    !.effectPending = FALSE]
    /\ UNCHANGED <<fhevm, notFhevmVars>>

FhevmNext ==
    \/ \E p \in Providers \cup {"none"}, e \in BOOLEAN : fhevmProps(p, e)
    \/ fhevmEffect
    \/ fhevmCreated
    \/ fhevmCreationFailed
    \/ \E m \in Providers \cup {fhevmRefs.managerFor} : fhevmAbortedSettles(m)
    \/ fhevmRefresh
    \/ fhevmUnmount

\* the hook useFhevm on its own
FhevmSpec == Init /\ [][FhevmNext]_allVars

\* ------------------------------------------------------------ helpers
Exists(c) == courses[c].courseId # 0
InWindow(c) == courses[c].startTime <= now /\ now <= courses[c].endTime
EndTimes == {b + d : b \in StartTimes, d \in Durations}

\* C1: every existing course has endTime > startTime: createCourse by a
\* teacher with a start time inside the grace window and end <= start is
\* rejected with 'End time must be after start', and no step changes the
\* startTime or the endTime of an existing course.
C1_EndAfterStart ==
    /\ [](/\ \A c \in IdSpace : Exists(c) => courses[c].endTime > courses[c].startTime
          /\ \A s \in Addr, n \in CourseNames,
                b \in StartTimes \cup {now}, e \in EndTimes \cup {now} :
                (isTeacher[s] /\ b > now - Grace /\ e <= b)
                   => createCourseRevert(s, n, b, e) = "End time must be after start")
    /\ [][\A c \in IdSpace : Exists(c) =>
            /\ courses'[c].startTime = courses[c].startTime
            /\ courses'[c].endTime = courses[c].endTime]_vars

\* a course that was created and finalized, after its window closed
C1_Witness ==
    \E c \in IdSpace : Exists(c) /\ courses[c].isFinalized /\ now > courses[c].endTime

\* C2: for a registered student and an existing course that is not finalized,
\* checkIn is accepted at every time of [startTime, endTime], both ends
\* included, rejected one second before with 'Course not started' and one
\* second after with 'Course already ended'.
C2_CheckInWindow ==
    \A s \in Addr, c \in IdSpace :
        (isStudent[s] /\ courseExists(c) = OK /\ ~courses[c].isFinalized) =>
            /\ InWindow(c) => checkInRevert(s, c, TRUE) = OK
            /\ now = courses[c].startTime - 1
                  => checkInRevert(s, c, TRUE) = "Course not started"
            /\ now = courses[c].endTime + 1
                  => checkInRevert(s, c, TRUE) = "Course already ended"

\* a student who checked in to an open course, one second after its end
C2_Witness ==
    \E s \in Addr, c \in IdSpace :
        /\ isStudent[s] /\ courseExists(c) = OK /\ ~courses[c].isFinalized
        /\ encryptedAttendance[c][s].init
        /\ now = courses[c].endTime + 1

\* C3: once a course is finalized it stays finalized, no checkIn on it by
\* anyone is accepted (a student inside the time window gets 'Course
\* finalized'), and its cells and its total no longer change.
C3_NoCheckInAfterFinalize ==
    /\ [](\A c \in IdSpace : courses[c].isFinalized =>
            \A s \in Addr :
               /\ checkInRevert(s, c, TRUE) # OK
               /\ (isStudent[s] /\ InWindow(c))
                     => checkInRevert(s, c, TRUE) = "Course finalized")
    /\ [][\A c \in IdSpace : courses[c].isFinalized =>
            /\ courses'[c].isFinalized
            /\ encryptedAttendance'[c] = encryptedAttendance[c]
            /\ encryptedTotalAttendance'[c] = encryptedTotalAttendance[c]]_vars

\* a finalized course, inside its window, with a student who checked in before
C3_Witness ==
    \E s \in Addr, c \in IdSpace :
        /\ courses[c].isFinalized /\ InWindow(c)
        /\ isStudent[s] /\ encryptedAttendance[c][s].init

\* C4: the step that finalizes a course leaves it finalized and inactive,
\* whatever isActive was; from then on finalizeCourse by the course's teacher
\* fails with 'Course already finalized'.
C4_FinalizeOnce ==
    /\ [](\A c \in IdSpace : courses[c].isFinalized =>
            finalizeCourseRevert(courses[c].teacher, c) = "Course already finalized")
    /\ [][\A s \in Addr, c \in IdSpace : finalizeCourse(s, c) =>
            /\ ~courses[c].isFinalized
            /\ courses'[c].isFinalized /\ ~courses'[c].isActive
            /\ \A d \in IdSpace \ {c} : courses'[d] = courses[d]]_vars

\* two finalized courses
C4_Witness ==
    \E c, d \in IdSpace : c # d /\ courses[c].isFinalized /\ courses[d].isFinalized

\* C5: on a finalized course toggleCourseStatus fails for every caller, with
\* 'Cannot modify finalized course' for the caller that passes the checks
\* before it (the course's teacher), and isActive is false.
C5_NoToggleAfterFinalize ==
    \A c \in IdSpace : courses[c].isFinalized =>
        /\ \A s \in Addr : toggleCourseStatusRevert(s, c) # OK
        /\ toggleCourseStatusRevert(courses[c].teacher, c) = "Cannot modify finalized course"
        /\ ~courses[c].isActive

\* a finalized course beside a course that was toggled off and is not finalized
C5_Witness ==
    \E c, d \in IdSpace :
        /\ courses[c].isFinalized
        /\ Exists(d) /\ ~courses[d].isFinalized /\ ~courses[d].isActive

\* C6: finalizeCourse and toggleCourseStatus are rejected for every caller
\* other than the course's recorded teacher: a registered teacher who is not
\* the teacher of an existing course gets 'Only course teacher can finalize',
\* respectively 'Only course teacher can modify'.
C6_OnlyCourseTeacher ==
    \A s \in Addr, c \in IdSpace :
        s # courses[c].teacher =>
            /\ finalizeCourseRevert(s, c) # OK
            /\ toggleCourseStatusRevert(s, c) # OK
            /\ (isTeacher[s] /\ Exists(c)) =>
                 /\ finalizeCourseRevert(s, c) = "Only course teacher can finalize"
                 /\ toggleCourseStatusRevert(s, c) = "Only course teacher can modify"

\* two registered teachers, one of them the teacher of an open course
C6_Witness ==
    \E s \in Addr, c \in IdSpace :
        /\ Exists(c) /\ ~courses[c].isFinalized
        /\ isTeacher[s] /\ s # courses[c].teacher

\* C7: selfRegister fails with 'Teachers cannot self-register as students'
\* for a caller in the teacher set, and for a caller in the student set it
\* fails too, with 'Already registered as student' when the teacher check
\* before it passes.
C7_SelfRegisterRejects ==
    \A s \in Addr :
        /\ isTeacher[s] => selfRegisterRevert(s) = "Teachers cannot self-register as students"
        /\ isStudent[s] => selfRegisterRevert(s) # OK
        /\ (isStudent[s] /\ ~isTeacher[s]) => selfRegisterRevert(s) = "Already registered as student"

\* a teacher, a self-registered student and an admin-registered student
C7_Witness ==
    \E t, s, u \in Addr :
        /\ isTeacher[t]
        /\ s # u /\ isStudent[s] /\ isStudent[u] /\ ~isTeacher[s] /\ ~isTeacher[u]
        /\ encryptedStudentScore[s].init /\ ~encryptedStudentScore[u].init

\* C8: a checkIn step with status 1 adds 1 to the plaintext of the course's
\* total, with status 2 it leaves the plaintext as it was.
C8_TotalCountsPresent ==
    [][\A s \in Addr, c \in IdSpace :
          /\ checkIn(s, c, 1) =>
                Plain(encryptedTotalAttendance'[c]) = Plain(encryptedTotalAttendance[c]) + 1
          /\ checkIn(s, c, 2) =>
                Plain(encryptedTotalAttendance'[c]) = Plain(encryptedTotalAttendance[c])]_vars

\* a course with a present and an absent submission and a total of 2
C8_Witness ==
    \E c \in IdSpace, s, u \in Addr :
        /\ Plain(encryptedTotalAttendance[c]) = 2
        /\ Plain(encryptedAttendance[c][s]) = 1 /\ encryptedAttendance[c][s].init
        /\ Plain(encryptedAttendance[c][u]) = 2 /\ encryptedAttendance[c][u].init

\* C9: a checkIn step with status 1 adds 10 to the plaintext of the sender's
\* score (the zero handle of an unset score reads 0), with status 2 it leaves
\* the plaintext as it was.
C9_ScoreCountsPresent ==
    [][\A s \in Addr, c \in IdSpace :
          /\ checkIn(s, c, 1) =>
                Plain(encryptedStudentScore'[s]) = Plain(encryptedStudentScore[s]) + 10
          /\ checkIn(s, c, 2) =>
                /\ Plain(encryptedStudentScore'[s]) = Plain(encryptedStudentScore[s])
                /\ encryptedStudentScore'[s].init]_vars

\* a student whose score is 10 and whose last submission to a course is absent
C9_Witness ==
    \E c \in IdSpace, s \in Addr :
        /\ Plain(encryptedStudentScore[s]) = 10
        /\ encryptedAttendance[c][s].init /\ Plain(encryptedAttendance[c][s]) = 2

\* C10: a checkIn step of student s on course c changes nothing but the cell
\* (c, s), the total of c and the score of s: it leaves the role sets, the
\* admin, the course records and nextCourseId as they were (first conjunct),
\* and every other score, cell and total (second conjunct).
C10_CheckInFrame ==
    [][/\ UNCHANGED <<isTeacher, isStudent, admin, courses, nextCourseId>>
          \/ ~\E s \in Addr, c \in IdSpace, p \in StatusValues : checkIn(s, c, p)
       /\ UNCHANGED <<encryptedStudentScore, encryptedAttendance, encryptedTotalAttendance>>
          \/ \A s \in Addr, c \in IdSpace, p \in StatusValues :
                checkIn(s, c, p) =>
                  /\ \A a \in Addr \ {s} :
                        encryptedStudentScore'[a] = encryptedStudentScore[a]
                  /\ \A d \in IdSpace, a \in Addr :
                        (d # c \/ a # s) =>
                           encryptedAttendance'[d][a] = encryptedAttendance[d][a]
                  /\ \A d \in IdSpace \ {c} :
                        encryptedTotalAttendance'[d] = encryptedTotalAttendance[d]]_vars

\* two students checked in to one course, one present and one absent: the
\* total is 1 and the scores are 10 and 0
C10_Witness ==
    \E c \in IdSpace, s, u \in Addr :
        /\ s # u /\ s # courses[c].teacher
        /\ encryptedAttendance[c][s].init /\ Plain(encryptedAttendance[c][s]) = 1
        /\ encryptedAttendance[c][u].init /\ Plain(encryptedAttendance[c][u]) = 2
        /\ Plain(encryptedTotalAttendance[c]) = 1
        /\ Plain(encryptedStudentScore[s]) = 10
        /\ Plain(encryptedStudentScore[u]) = 0

\* C11: a read returns a handle only to an authorized caller, in every
\* reachable state: getStudentAttendance(c, s) succeeds only for a caller in
\* {s, the teacher of c, admin}, getCourseAttendance(c) only for a caller in
\* {the teacher of c, admin}, getStudentScore(s) only for a caller in
\* {s, admin}; on an existing course (and for any score) every other caller
\* is rejected with 'Not authorized', and an authorized caller gets the
\* stored handle.
C11_ReadsAuthorized ==
    /\ \A x \in Addr, s \in Addr :
          /\ getStudentScoreRevert(x, s) = OK <=> x \in {s, admin}
          /\ getStudentScoreRevert(x, s) # OK =>
                getStudentScoreRevert(x, s) = "Not authorized"
    /\ \A x \in Addr, c \in IdSpace :
          /\ getCourseAttendanceRevert(x, c) = OK =>
                Exists(c) /\ x \in {courses[c].teacher, admin}
          /\ Exists(c) =>
                getCourseAttendanceRevert(x, c) =
                   IF x \in {courses[c].teacher, admin} THEN OK ELSE "Not authorized"
    /\ \A x \in Addr, c \in IdSpace, s \in Addr :
          /\ getStudentAttendanceRevert(x, c, s) = OK =>
                Exists(c) /\ x \in {s, courses[c].teacher, admin}
          /\ Exists(c) =>
                getStudentAttendanceRevert(x, c, s) =
                   IF x \in {s, courses[c].teacher, admin} THEN OK ELSE "Not authorized"

\* a student has checked in to a course, a registered teacher who is
\* neither that student nor the course's teacher nor the admin is refused
\* the cell, the total and the score, and the student reads the cell it
\* wrote
C11_Witness ==
    \E c \in IdSpace, s, x \in Addr :
        /\ Exists(c) /\ encryptedAttendance[c][s].init
        /\ x \notin {s, courses[c].teacher, admin}
        /\ isTeacher[x]
        /\ getStudentAttendanceRevert(x, c, s) = "Not authorized"
        /\ getCourseAttendanceRevert(x, c) = "Not authorized"
        /\ getStudentScoreRevert(x, s) = "Not authorized"
        /\ getStudentAttendanceRevert(s, c, s) = OK
        /\ getStudentAttendance(c, s).init

C14_CheckInsCommute ==
    \A s1, s2 \in Addr, c1, c2 \in IdSpace, p1, p2 \in StatusValues :
        (/\ <<c1, s1>> # <<c2, s2>>
         /\ checkInRevert(s1, c1, TRUE) = OK
         /\ checkInRevert(s2, c2, TRUE) = OK)
        => checkInOn(checkInOn(Ledger, s1, c1, p1), s2, c2, p2)
              = checkInOn(checkInOn(Ledger, s2, c2, p2), s1, c1, p1)

\* C15: admin is the deployer after construction and changes only through
\* updateAdmin(newAdmin): called by the current admin it is accepted and
\* sets admin to newAdmin, called by anyone else it fails with 'Only admin'.
C15_UpdateAdminByAdminOnly ==
    \A s \in Addr, n \in Addr :
        updateAdminRevert(s, n) = IF s = admin THEN OK ELSE "Only admin"

\* C16: registerTeacher(a) and registerStudent(a) are accepted exactly when
\* the caller is the admin, whatever a's membership of either set, and fail
\* with 'Only admin' for every other caller; an accepted registerTeacher(a)
\* puts a into the teacher set and leaves the student set alone, an accepted
\* registerStudent(a) puts a into the student set and leaves the teacher
\* set alone, so one address may be in both sets.
C16_AdminRegistration ==
    /\ [](\A s \in Addr, a \in Addr :
            /\ registerTeacherRevert(s, a) = (IF s = admin THEN OK ELSE "Only admin")
            /\ registerStudentRevert(s, a) = (IF s = admin THEN OK ELSE "Only admin"))
    /\ [][\A s \in Addr, a \in Addr :
            /\ registerTeacher(s, a) =>
                  s = admin /\ isTeacher'[a] /\ isStudent' = isStudent
            /\ registerStudent(s, a) =>
                  s = admin /\ isStudent'[a] /\ isTeacher' = isTeacher]_vars

\* the admin registered one address as teacher and as student
C16_Witness ==
    \E a \in Addr : a # admin /\ isTeacher[a] /\ isStudent[a]

C18_CreateCourse ==
    /\ [](\A s \in Addr, n \in CourseNames, b \in StartTimes, e \in EndTimes :
            ~isTeacher[s] => createCourseRevert(s, n, b, e) = "Only teacher")
    /\ [][\A s \in Addr, n \in CourseNames, b \in StartTimes, d \in Durations,
             id \in IdSpace :
            (id = nextCourseId /\ createCourse(s, n, b, b + d)) =>
               /\ isTeacher[s]
               /\ courses'[id] =
                     [courseId |-> id, name |-> n, teacher |-> s,
                      startTime |-> b, endTime |-> b + d,
                      isActive |-> TRUE, isFinalized |-> FALSE]
               /\ encryptedTotalAttendance'[id].init
               /\ Plain(encryptedTotalAttendance'[id]) = 0
               /\ s \in encryptedTotalAttendance'[id].acl
               /\ createCourseEvent(s, n) =
                     [event |-> "CourseCreated", courseId |-> id, name |-> n,
                      teacher |-> s]
               /\ (getCourseInfoRevert(id) = OK)'
               /\ (getCourseInfo(id).name = n /\ getCourseInfo(id).teacher = s)']_vars

\* a teacher other than the admin created a course that is still active,
\* not finalized and without check-ins: its total is an encrypted zero the
\* teacher may decrypt and getCourseInfo returns its name and teacher
C18_Witness ==
    \E c \in IdSpace :
        /\ Exists(c) /\ courses[c].teacher # admin /\ isTeacher[courses[c].teacher]
        /\ courses[c].isActive /\ ~courses[c].isFinalized
        /\ courses[c].name \in CourseNames
        /\ encryptedTotalAttendance[c].init /\ Plain(encryptedTotalAttendance[c]) = 0
        /\ courses[c].teacher \in encryptedTotalAttendance[c].acl
        /\ \A u \in Addr : ~encryptedAttendance[c][u].init
        /\ getCourseInfoRevert(c) = OK
        /\ getCourseInfo(c).name = courses[c].name
        /\ getCourseInfo(c).teacher = courses[c].teacher

\* start times around the edge of the grace window and around now
GraceProbes == {now - Grace - 1, now - Grace, now - Grace + 1, now - 1, now, now + 1}

C20_CourseFieldsImmutable ==
    [][\A c \in IdSpace :
          Exists(c) =>
             /\ courses'[c].courseId = courses[c].courseId
             /\ courses'[c].name = courses[c].name
             /\ courses'[c].teacher = courses[c].teacher
             /\ courses'[c].startTime = courses[c].startTime
             /\ courses'[c].endTime = courses[c].endTime
             /\ courses'[c].isActive # courses[c].isActive =>
                   \E s \in Addr : toggleCourseStatus(s, c) \/ finalizeCourse(s, c)
             /\ courses'[c].isFinalized # courses[c].isFinalized =>
                   \E s \in Addr : finalizeCourse(s, c)]_vars

\* one course was switched off by its teacher and another one finalized,
\* after a student checked in to it and the clock moved on: both still
\* hold their id, name, teacher and times
C20_Witness ==
    \E c, d \in IdSpace :
        /\ c # d /\ Exists(c) /\ Exists(d)
        /\ ~courses[c].isActive /\ ~courses[c].isFinalized
        /\ courses[d].isFinalized /\ ~courses[d].isActive
        /\ \E u \in Addr : encryptedAttendance[d][u].init
        /\ now > courses[d].startTime
        /\ \A e \in {c, d} :
              /\ courses[e].courseId = e /\ courses[e].name \in CourseNames
              /\ isTeacher[courses[e].teacher]
              /\ courses[e].startTime \in StartTimes
              /\ courses[e].endTime \in EndTimes

\* C21: finalization is one-way and implies deactivation: in every reachable
\* state a finalized course is not active, and no step takes a finalized
\* course back to isFinalized = false or to isActive = true.
C21_FinalizedStaysInactive ==
    /\ [](\A c \in IdSpace : courses[c].isFinalized => ~courses[c].isActive)
    /\ [][\A c \in IdSpace :
            courses[c].isFinalized =>
               courses'[c].isFinalized /\ ~courses'[c].isActive]_vars

\* a finalized course, still finalized and inactive after its window has
\* passed, beside a second course that is active and not finalized
C21_Witness ==
    \E c, d \in IdSpace :
        /\ c # d /\ Exists(c) /\ Exists(d)
        /\ courses[c].isFinalized /\ ~courses[c].isActive
        /\ now > courses[c].endTime
        /\ courses[d].isActive /\ ~courses[d].isFinalized

C23_CellHoldsPresentOrAbsent ==
    \A c \in IdSpace, s \in Addr :
        encryptedAttendance[c][s].init => Plain(encryptedAttendance[c][s]) \in {1, 2}

\* C24: after any sequence of writes the current ciphertext of each resource
\* is decryptable by its interested parties: every written score is
\* authorized to its student and the contract, the total of every existing
\* course is written and authorized to that course's teacher and the
\* contract, and every written attendance cell is authorized to its
\* student, the course's teacher and the contract.
C24_CurrentCiphertextAuthorized ==
    /\ \A s \in Addr :
          encryptedStudentScore[s].init =>
             {This, s} \subseteq encryptedStudentScore[s].acl
    /\ \A c \in IdSpace :
          Exists(c) =>
             /\ encryptedTotalAttendance[c].init
             /\ {This, courses[c].teacher} \subseteq encryptedTotalAttendance[c].acl
    /\ \A c \in IdSpace, s \in Addr :
          encryptedAttendance[c][s].init =>
             {This, s, courses[c].teacher} \subseteq encryptedAttendance[c][s].acl

\* a student's check-in as present has rewritten its cell, the course's
\* total and its own score, and a bonus has written the score of an
\* address that is not a student: all of them carry their authorizations
C24_Witness ==
    \E c \in IdSpace, s, u \in Addr :
        /\ encryptedAttendance[c][s].init
        /\ Plain(encryptedTotalAttendance[c]) = 1
        /\ courses[c].teacher \in encryptedTotalAttendance[c].acl
        /\ Plain(encryptedStudentScore[s]) = PresentPoints
        /\ s \in encryptedStudentScore[s].acl
        /\ ~isStudent[u] /\ encryptedStudentScore[u].init
        /\ u \in encryptedStudentScore[u].acl

\* C25: generateRandomBonus(student) fails with 'Only teacher' for a caller
\* who is not a registered teacher. An accepted call is by a registered
\* teacher, raises the target's score by a value between 0 and 255, leaves
\* the target authorized on its new score, and changes no other score, no
\* attendance cell, no course total and no course record.
C25_RandomBonus ==
    /\ [](\A s \in Addr, t \in Addr :
            ~isTeacher[s] => generateRandomBonusRevert(s, t) = "Only teacher")
    /\ [][\A s \in Addr, t \in BonusArgs, r \in BonusValues :
            generateRandomBonus(s, t, r) =>
               /\ isTeacher[s]
               /\ Plain(encryptedStudentScore'[t]) - Plain(encryptedStudentScore[t])
                     \in 0 .. Uint8Max
               /\ {This, t} \subseteq encryptedStudentScore'[t].acl
               /\ \A u \in Addr \ {t} :
                     encryptedStudentScore'[u] = encryptedStudentScore[u]
               /\ UNCHANGED <<encryptedAttendance, encryptedTotalAttendance, courses>>]_vars

\* a bonus of 255 reached an address whose score another write had already
\* set to 10, while a course with a check-in exists
C25_Witness ==
    \E t \in BonusArgs, c \in IdSpace, s \in Addr :
        /\ Plain(encryptedStudentScore[t]) = PresentPoints + Uint8Max
        /\ t \in encryptedStudentScore[t].acl
        /\ Exists(c) /\ encryptedAttendance[c][s].init

\* C26: compareStudentScores(a, b) is accepted only for the admin. Its
\* result is an encrypted boolean that decrypts to true exactly when
\* score(a) > score(b), an unset score counting as 0; the result is
\* authorized to the admin and the contract and to nobody else; and in no
\* reachable state, whatever comparisons were made, is the admin
\* authorized on the score of another address.
C26_CompareScores ==
    \A s, a, b \in Addr :
        /\ compareStudentScoresRevert(s, a, b) = OK <=> s = admin
        /\ Plain(compareStudentScoresResult(a, b)) = 1
              <=> Plain(encryptedStudentScore[a]) > Plain(encryptedStudentScore[b])
        /\ Plain(compareStudentScoresResult(a, b)) \in {0, 1}
        /\ compareStudentScoresResult(a, b).acl = {This, admin}
        /\ a # admin => admin \notin encryptedStudentScore[a].acl

\* two addresses other than the admin hold different written scores: the
\* comparison is true one way round and false the other, and the admin is
\* authorized on neither score
C26_Witness ==
    \E a, b \in Addr \ {admin} :
        /\ encryptedStudentScore[a].init /\ encryptedStudentScore[b].init
        /\ Plain(encryptedStudentScore[a]) > Plain(encryptedStudentScore[b])
        /\ Plain(compareStudentScoresResult(a, b)) = 1
        /\ Plain(compareStudentScoresResult(b, a)) = 0
        /\ compareStudentScoresRevert(admin, a, b) = OK
        /\ admin \notin encryptedStudentScore[a].acl \cup encryptedStudentScore[b].acl

\* C27: for every existing course and every time, the canCheckIn flag of
\* getCourseDebugInfo is true exactly when a check-in by a registered
\* student with a valid proof would be accepted in that state.
C27_CanCheckInAgrees ==
    \A c \in IdSpace, s \in Addr :
        (getCourseDebugInfoRevert(c) = OK /\ isStudent[s]) =>
           (getCourseDebugInfo(c).canCheckIn <=> checkInRevert(s, c, TRUE) = OK)

\* C28: score initialization depends on the registration route. An accepted
\* selfRegister leaves the caller's score a zero ciphertext authorized to
\* the caller and the contract. An accepted registerStudent(a) leaves a's
\* score as it was, unset for a fresh address, and the unset score of a
\* registered student becomes set only in a checkIn by that student or a
\* generateRandomBonus targeting it: selfRegister is rejected for every
\* registered student.
C28_ScoreInitByRoute ==
    /\ [](\A a \in Addr : isStudent[a] => selfRegisterRevert(a) # OK)
    /\ [][/\ \A a \in Addr :
               selfRegister(a) =>
                  encryptedStudentScore'[a] = [init |-> TRUE, val |-> 0, acl |-> {This, a}]
          /\ \A s \in Addr, a \in Addr :
               registerStudent(s, a) =>
                  encryptedStudentScore'[a] = encryptedStudentScore[a]
          /\ \A a \in Addr :
               (isStudent[a] /\ ~encryptedStudentScore[a].init
                   /\ encryptedStudentScore'[a].init) =>
                  \/ \E c \in IdSpace, p \in StatusValues : checkIn(a, c, p)
                  \/ \E s \in Addr, r \in BonusValues : generateRandomBonus(s, a, r)]_vars

\* the admin registered one student and another registered itself, a
\* course exists and the clock has moved on: the first one's score is
\* still unset and selfRegister refuses it, the second one's score is an
\* authorized zero
C28_Witness ==
    \E a, b \in Addr :
        /\ isStudent[a] /\ encryptedStudentScore[a] = ZeroHandle
        /\ selfRegisterRevert(a) = "Already registered as student"
        /\ isStudent[b]
        /\ encryptedStudentScore[b] = [init |-> TRUE, val |-> 0, acl |-> {This, b}]
        /\ nextCourseId > 1 /\ now > GenesisTime

\* C29: checkIn reports the first precondition that fails, in this order:
\* a caller who is not a registered student gets 'Only student', whatever
\* the course id; then a course id that names no course gets 'Course does
\* not exist'; then a time before the start gets 'Course not started';
\* then a time after the end gets 'Course already ended'; then a finalized
\* course gets 'Course finalized'. A finalized course after its end time
\* reports 'Course already ended'.
C29_CheckInFirstFailure ==
    \A x \in Addr, c \in IdSpace, ok \in BOOLEAN :
        /\ ~isStudent[x] => checkInRevert(x, c, ok) = "Only student"
        /\ (isStudent[x] /\ ~Exists(c)) =>
              checkInRevert(x, c, ok) = "Course does not exist"
        /\ (isStudent[x] /\ Exists(c) /\ now < courses[c].startTime) =>
              checkInRevert(x, c, ok) = "Course not started"
        /\ (isStudent[x] /\ Exists(c) /\ now >= courses[c].startTime
               /\ now > courses[c].endTime) =>
              checkInRevert(x, c, ok) = "Course already ended"
        /\ (isStudent[x] /\ Exists(c) /\ InWindow(c) /\ courses[c].isFinalized) =>
              checkInRevert(x, c, ok) = "Course finalized"

\* a registered student and a non-student face a finalized course whose
\* end time has passed
C29_Witness ==
    \E x, y \in Addr, c \in IdSpace :
        /\ isStudent[x] /\ ~isStudent[y]
        /\ Exists(c) /\ courses[c].isFinalized /\ now > courses[c].endTime
        /\ checkInRevert(x, c, TRUE) = "Course already ended"
        /\ checkInRevert(y, c, TRUE) = "Only student"
        /\ checkInRevert(y, 0, TRUE) = "Only student"
        /\ checkInRevert(x, 0, TRUE) = "Course does not exist"

\* C30: every transaction operation of the hook (checkIn, registerAsStudent,
\* createCourse, finalizeCourse) that has set isLoading to true eventually
\* sets it back to false, also when the transaction it sent is never
\* included.  Fails under HookSpec: an operation whose transaction is sent
\* and then dropped waits on tx.wait() for ever, its finally block never
\* runs, and isLoading stays true with no error recorded.
C30_LoadingEventuallyEnds == isLoading ~> ~isLoading

\* C35: for an existing course, hasStudentCheckedIn(courseId, student) is
\* true exactly when that student has made a successful checkIn on the
\* course, that is, when the student's attendance cell of the course has
\* been written.  Fails: the function returns true for every student of an
\* existing course, checked in or not.
C35_HasCheckedInIsExact ==
    \A c \in IdSpace, s \in Addr :
        hasStudentCheckedInRevert(c) = OK
            => (hasStudentCheckedIn(c, s) <=> encryptedAttendance[c][s].init)

\* C36: the plaintext of every address's encrypted score never decreases
\* in a step of the ledger (no wraparound occurs within the bounds of the
\* model); in particular a bonus granted before the address registers
\* stays in its score.  Fails: selfRegister overwrites the caller's score
\* with a fresh encrypted 0, so a bonus granted to an address that has not
\* yet registered is lost when it registers.
C36_ScoreNeverDecreases ==
    [][\A a \in Addr :
          Plain(encryptedStudentScore'[a]) >= Plain(encryptedStudentScore[a])]_vars

\* C37: in every reachable state the current total ciphertext of every
\* course can be decrypted only by the contract and the course's teacher;
\* no student and no other address is on its ACL.  Fails: checkIn grants
\* the new total to the student who checked in.
C37_TotalConfinedToTeacher ==
    \A c \in IdSpace :
        encryptedTotalAttendance[c].acl \subseteq {This, courses[c].teacher}

\* C38: no step removes a role (isTeacher[a] and isStudent[a], once true,
\* stay true), so in every reachable state the recorded teacher of every
\* existing course is a registered teacher, and neither finalizeCourse nor
\* toggleCourseStatus called by the course's teacher fails on the
\* onlyTeacher check.
C38_RolesOnlyGrow ==
    /\ [][\A a \in Addr : /\ isTeacher[a] => isTeacher'[a]
                          /\ isStudent[a] => isStudent'[a]]_vars
    /\ [](\A c \in IdSpace :
              Exists(c) =>
                 /\ isTeacher[courses[c].teacher]
                 /\ finalizeCourseRevert(courses[c].teacher, c) # "Only teacher"
                 /\ toggleCourseStatusRevert(courses[c].teacher, c) # "Only teacher")

\* an existing course whose teacher holds the student role as well and
\* from whom finalizeCourse is accepted
C38_Witness ==
    \E c \in IdSpace :
        /\ Exists(c)
        /\ isStudent[courses[c].teacher]
        /\ isTeacher[courses[c].teacher]
        /\ finalizeCourseRevert(courses[c].teacher, c) = OK

\* C39: in every reachable state the two tests of course existence agree:
\* for every id, 0 < id < nextCourseId holds exactly when
\* courses[id].courseId # 0, and then courses[id].courseId = id.  So
\* courseExists never fails with 'Course not initialized', and
\* finalizeCourse and toggleCourseStatus (which test courses[id].courseId
\* # 0) report 'Course does not exist' for exactly the ids for which
\* courseExists (used by checkIn and the read operations) does.
C39_ExistenceTestsAgree ==
    \A id \in IdSpace :
        /\ (id > 0 /\ id < nextCourseId) <=> (courses[id].courseId # 0)
        /\ courses[id].courseId # 0 => courses[id].courseId = id
        /\ courseExists(id) # "Course not initialized"
        /\ \A t \in Addr :
              isTeacher[t] =>
                 /\ (finalizeCourseRevert(t, id) = "Course does not exist")
                       <=> (courseExists(id) # OK)
                 /\ (toggleCourseStatusRevert(t, id) = "Course does not exist")
                       <=> (courseExists(id) # OK)

\* course 1 exists and id 2 does not: both tests accept 1 and refuse 2
C39_Witness ==
    /\ nextCourseId = 2
    /\ courseExists(1) = OK
    /\ courseExists(2) = "Course does not exist"
    /\ finalizeCourseRevert(courses[1].teacher, 1) = OK
    /\ finalizeCourseRevert(courses[1].teacher, 2) = "Course does not exist"
    /\ toggleCourseStatusRevert(courses[1].teacher, 2) = "Course does not exist"

\* C31: the signature manager never hands out an expired authorization:
\* a signature returned by loadSignature or getOrCreateSignature satisfies
\* now < startTimestamp + durationDays * 86400 at the time of the return.
\* A stored signature that the call finds expired under the key it looks
\* up is removed from the storage, and where getOrCreateSignature then
\* obtains a signature from the signer, the storage holds that newly
\* signed one (start = time of the call) under the key in its place.
C31_NoExpiredSignature ==
    /\ sigCall.op \in {"loadSignature", "getOrCreateSignature"}
         /\ sigCall.result # NoSig
         => sigCall.at < sigCall.result.startTimestamp
                            + sigCall.result.durationDays * 86400
    /\ sigCall.op \in {"loadSignature", "getOrCreateSignature"}
         /\ sigCall.found = "expired"
         => LET key == generateKey(sigCall.userAddress, sigCall.contractAddresses,
                                   sigCall.publicKey)
            IN  IF sigCall.result = NoSig
                  THEN sigStorage[key] = NoSig
                  ELSE /\ sigCall.op = "getOrCreateSignature"
                       /\ sigCall.signed
                       /\ sigStorage[key] = sigCall.result
                       /\ sigCall.result.startTimestamp = sigCall.at

\* getOrCreateSignature with a key pair found the stored signature expired,
\* had a new one signed and returned it, and the storage holds the new one
C31_Witness ==
    /\ sigCall.op = "getOrCreateSignature"
    /\ sigCall.found = "expired"
    /\ sigCall.signed
    /\ sigCall.result # NoSig
    /\ sigCall.result.startTimestamp = sigCall.at
    /\ sigCall.at > 0
    /\ sigStorage[generateKey(sigCall.userAddress, sigCall.contractAddresses,
                              sigCall.publicKey)] = sigCall.result

\* C32: the signature cache is effective.  When the storage holds an
\* unexpired signature that getOrCreateSignature created and saved for a
\* user, a list of contracts and a keyPair (given, or omitted so that the
\* public key was generated), a getOrCreateSignature call with the same
\* user, contracts and keyPair returns that stored signature and does not
\* ask the signer to sign.  Fails when the keyPair is omitted: the
\* signature is saved under a key that ends with its generated public key
\* and looked up under the key without one.
C32_CacheIsEffective ==
    [][\A u \in SigUsers, c \in ContractLists, k \in KeyPairs,
          g \in GeneratedKeys, ok \in BOOLEAN :
          LET saved == IF k = ""
                         THEN {sigStorage[generateKey(u, c, p)] : p \in GeneratedKeys}
                         ELSE {sigStorage[generateKey(u, c, k)]}
              cached == {s \in saved : s # NoSig /\ isSignatureValid(s)}
          IN  getOrCreateSignature(u, c, k, g, ok) /\ cached # {}
                => /\ ~sigCall'.signed
                   /\ sigCall'.result \in cached]_allVars

\* C33: initSDKWithRetry initializes afresh on each attempt: after an
\* attempt whose call of window.relayerSDK.initSDK failed, the next attempt
\* calls it again, so a run of at least two attempts in which the first
\* call fails and the second would succeed ends with the result true.
\* Fails: the rejected initPromise of the first attempt is what every later
\* attempt gets back, window.relayerSDK.initSDK is called once, and the run
\* ends with SDKInitError.
C33_RetryInitializesAgain ==
    /\ sdkRetry.pc = "done"
    /\ sdkRetry.maxRetries >= 2
    /\ sdkRetry.calls >= 1
    /\ ~sdkRetry.plan[1]
    /\ sdkRetry.plan[2]
    => sdkRetry.result = "true"

\* C34 as stated: useFhevm bounds its automatic retries and never
\* publishes a cancelled result.  (a) Once instance creation has failed 3
\* times no creation is in flight or started, and (once the effect has run)
\* the status is 'error' with the error 'Maximum retry attempts reached
\* ...' until refresh() resets the counter.  (b) A creation that settles
\* after its signal was aborted changes neither instance nor status.  (c)
\* Status 'ready' always comes with a defined instance.  Part (a) fails as
\* stated: with the counter at 3, disabling the hook or taking its
\* provider away puts the status back to 'idle' and clears the error,
\* without any refresh().
C34_MaxRetryErrorUntilRefresh ==
    /\ [](/\ fhevm.status = "ready" => fhevm.instance # "undefined"
          /\ fhevm.retryCount >= MaxRetryCount => fhevmRefs.active = "none"
          /\ (/\ fhevm.retryCount >= MaxRetryCount
              /\ fhevmRefs.mounted /\ ~fhevmRefs.effectPending)
               => /\ fhevm.status = "error"
                  /\ fhevm.error = MaximumRetryError)
    /\ [][/\ fhevm'.retryCount < fhevm.retryCount
               => fhevmRefresh /\ fhevm'.retryCount = 0
          /\ fhevmRefs'.aborted < fhevmRefs.aborted => fhevm' = fhevm
          /\ (fhevmRefs'.active # "none" /\ fhevmRefs.active = "none")
               => fhevm.retryCount < MaxRetryCount]_allVars

\* C34 amended: as C34 above, with part (a) restricted to the time the
\* hook is enabled and has a provider: once retryCount has reached 3 no
\* creation of an instance is in flight or started; while the hook is
\* mounted and enabled with a provider and its effect has run, the status
\* is 'error' with the error 'Maximum retry attempts reached ...';
\* retryCount never exceeds 3 and goes down only by refresh(), which sets
\* it to 0.  (b) A creation that settles after its signal was aborted
\* changes neither instance nor status (nor error, nor retryCount).  (c)
\* Status 'ready' always comes with a defined instance.
C34_BoundedRetriesNoCancelledResult ==
    /\ [](/\ fhevm.status = "ready" => fhevm.instance # "undefined"
          /\ fhevm.retryCount <= MaxRetryCount
          /\ fhevm.retryCount >= MaxRetryCount => fhevmRefs.active = "none"
          /\ (/\ fhevm.retryCount >= MaxRetryCount
              /\ fhevmRefs.mounted /\ fhevmRefs.enabled
              /\ fhevmRefs.provider # "none" /\ ~fhevmRefs.effectPending)
               => /\ fhevm.status = "error"
                  /\ fhevm.error = MaximumRetryError)
    /\ [][/\ fhevm'.retryCount < fhevm.retryCount
               => fhevmRefresh /\ fhevm'.retryCount = 0
          /\ fhevmRefs'.aborted < fhevmRefs.aborted => fhevm' = fhevm
          /\ (fhevmRefs'.active # "none" /\ fhevmRefs.active = "none")
               => fhevm.retryCount < MaxRetryCount]_allVars

\* three failures have brought retryCount to 3 and the status to 'error'
\* with the maximum-retries error, while a creation aborted earlier is
\* still in flight
C34_Witness ==
    /\ fhevm.retryCount = MaxRetryCount
    /\ fhevm.status = "error"
    /\ fhevm.error = MaximumRetryError
    /\ fhevm.instance = "undefined"
    /\ fhevmRefs.aborted > 0
    /\ fhevmRefs.active = "none"
    /\ fhevmRefs.mounted

====
